---- MODULE Spec2Model ----
(***************************************************************************)
(* State-machine model of the StirrupJS agent execution core:              *)
(*   - Agent.run / Agent.step / Agent.runTool / Agent.summarizeMessages    *)
(*     (src/core/agent.ts, here src/unnamed/part_020)                      *)
(*   - AsyncDisposableStack (src/utils/async-stack.ts, src/unnamed/part_016)*)
(* The model client and the tool handlers are external collaborators: the  *)
(* model client is a script that answers each generate call with one of a  *)
(* bounded set of assistant messages, a handler returns or throws.         *)
(***************************************************************************)
EXTENDS Integers, Sequences, FiniteSets, TLC

VARIABLES
    \* ---- Agent configuration (constructor arguments) ----
    maxTurns,          \* this.maxTurns
    finishTool,        \* this.finishTool: "none" | "schema" | "null" (parameters: null)
    hasSignal,         \* options.signal supplied by the caller
    \* ---- caller / environment ----
    aborted,           \* signal.aborted
    \* ---- Agent session fields ----
    isInitialized,     \* this.isInitialized
    activeTools,       \* this.activeTools: name -> tool (a function on the registered names)
    lastFinishParams,  \* this.lastFinishParams
    \* ---- locals of run() ----
    pc,                \* position of run()
    turn,              \* loop variable of the turn loop
    currentMessages,   \* active message list sent to the next generate call
    currentGroup,      \* message group of the current summarization epoch
    messageHistory,    \* sealed groups
    runMetadata,       \* name -> list of metadata values
    finishParams,      \* finish parameters found by run()
    runOutcome,        \* what run() settled with
    \* ---- locals of step() / runTool() ----
    assistantMessage,  \* the response of the generate call of this turn
    idx,               \* index of the next tool call of the for-loop in step()
    toolMessages,      \* step()'s toolMessages list
    inFlight,          \* tool calls whose executor promise is pending
    genInFlight,       \* "none" | "primary" | "summary": pending generate call
    \* ---- observation ----
    events,            \* events emitted through the EventEmitter, in order
    genCalls,          \* number of primary generate calls issued
    invocations,       \* executor invocations, in order
    settlements,       \* how each executor invocation settled, in order
    scriptCalls,       \* number of tool calls the scripted model has emitted
    \* ---- AsyncDisposableStack ----
    stack,             \* this.stack: sequence of registered cleanups (resource names)
    disposed,          \* this.disposed
    dpc,               \* position of dispose()
    running,           \* the cleanup popped and awaited by dispose()
    errors,            \* dispose()'s errors list
    cleanupLog,        \* cleanups invoked, in order
    registered,        \* resources registered, in order
    disposeOutcome,    \* what the dispose() call that ran the loop settled with
    disposeThrown,     \* the failures carried by the error that call threw
    cleanupFailed,     \* cleanups that threw, in order
    disposeCallLog,    \* position of the loop at each dispose() call, in order
    \* ---- sub-agent bridge (Agent.toTool) ----
    customSystemPrompt,\* per sub-agent: toTool() was given a customSystemPrompt
    codeExec,          \* per agent: its tool provider is a CodeExecToolProvider
    agents,            \* per nesting level: the session fields of the Agent object in use
    providers,         \* per nesting level: state of the agent's tool provider object
    frames,            \* call stack of run() and sub-agent executor activations
    sessionStore,      \* sessionContext: store of the current async execution
    parentDepthStore,  \* parentDepthContext: store of the current async execution
    toolCallsMade,     \* tool calls made so far by all runs
    subLog,            \* run:start events and calls on providers, in order
    \* ---- session initialization (Agent.initialize) ----
    tools,             \* this.tools: the configured list of tools and tool providers
    sessionConfig,     \* the argument of session(): which of inputFiles, skillsDir it set
    pendingInputFiles, \* this._pendingInputFiles is set
    pendingSkillsDir,  \* this.pendingSkillsDir is set
    ipc,               \* position of initialize()
    toolCursor,        \* index of the next tool of the second pass over this.tools
    execEnv,           \* sessionState.execEnv: name of the provider, "" when undefined
    initLog,           \* steps initialize() has performed, in order
    \* ---- several run()/runStream() calls on one session ----
    runCalls,          \* the run()/runStream() calls made on the agent, in call order
    \* ---- event subscribers ----
    throwingSubscribers, \* event types that have a subscriber which throws
    \* ---- a sub-agent run inside the executor of its tool ----
    child,             \* the sub-agent's run(): its position, locals and result
    \* ---- disposal of the session (Agent[Symbol.asyncDispose]) ----
    disposal,          \* position and observations of the agent's asyncDispose
    \* ---- aggregation of metadata values ----
    agg,               \* values given to add / aggregateMetadata and the results
    \* ---- the summarization generate call ----
    summaryCalls,      \* the summarization generate calls that returned, in order
    \* ---- AsyncDisposableStack.enterContext ----
    entering           \* the cleanups whose enterContext() call awaits its callback

agentVars == <<maxTurns, finishTool, hasSignal, aborted, isInitialized, activeTools,
               lastFinishParams, pc, turn, currentMessages, currentGroup, messageHistory,
               runMetadata, finishParams, runOutcome, assistantMessage, idx, toolMessages,
               inFlight, genInFlight, events, genCalls, invocations, settlements, scriptCalls>>

stackVars == <<stack, disposed, dpc, running, errors, cleanupLog, registered, disposeOutcome,
               disposeThrown, cleanupFailed, disposeCallLog>>

subVars == <<customSystemPrompt, codeExec, agents, providers, frames, sessionStore,
             parentDepthStore, toolCallsMade, subLog>>

initVars == <<tools, sessionConfig, pendingInputFiles, pendingSkillsDir, ipc, toolCursor, execEnv, initLog>>

callVars == <<runCalls>>

subscriberVars == <<throwingSubscribers>>

\* the variables of this group other than those of the calls
bridgeVars == <<child>>

disposeVars == <<disposal>>

aggVars == <<agg>>

summarizerVars == <<summaryCalls>>

\* the variables of the groups added last
enterVars == <<entering>>

moreVars == <<summarizerVars, enterVars>>

\* the variables of the groups added before those
earlierVars == <<callVars, subscriberVars, bridgeVars, disposeVars, aggVars>>

nonCallVars == <<subscriberVars, bridgeVars, disposeVars, aggVars, moreVars>>

\* the variables of this group other than those of the sub-agent run
nonBridgeVars == <<callVars, subscriberVars, disposeVars, aggVars, moreVars>>

\* the variables of this group other than those of the disposal
nonDisposeVars == <<callVars, subscriberVars, bridgeVars, aggVars, moreVars>>

\* the variables of this group other than those of the aggregation
nonAggVars == <<callVars, subscriberVars, bridgeVars, disposeVars, moreVars>>

sessVars == <<callVars, nonCallVars>>

extVars == <<subVars, initVars, sessVars>>

vars == <<agentVars, stackVars, extVars>>

(***************************************************************************)
(* Bounds of the model                                                     *)
(***************************************************************************)
\* largest configured maxTurns explored
MaxTurns == 2
\* total number of tool calls the scripted model client emits in one run
MaxScriptCalls == 2
\* number of resources registered on one disposal stack
MaxResources == 3
\* number of dispose() calls made on one disposal stack
MaxDisposeCalls == 2
\* deepest sub-agent nesting level below the root agent
MaxNesting == 2
\* total number of tool calls (provider tools and sub-agent tools) in a scenario
MaxToolCalls == 3
\* length of the configured tools list of an agent
MaxTools == 3
\* number of run()/runStream() calls made on one agent
MaxRunCalls == 2

\* largest count of a ToolUseCountMetadata given to the aggregation
MaxCount == 3

\* largest number of metadata values recorded for one tool name
MaxValues == 3

(***************************************************************************)
(* Program constants                                                       *)
(***************************************************************************)
FINISH_TOOL_NAME == "finish"

\* contextSummarizationCutoff, in tenths (CONTEXT_SUMMARIZATION_CUTOFF = 0.7)
CutoffTenths == 7

\* client.maxTokens of the scripted model client
ClientMaxTokens == 1000

\* toolCall.toolCallId is optional: the value of an absent id
NoToolCallId == "<undefined>"

(***************************************************************************)
(* Tool-call arguments: parseToolCallArguments and schema validation       *)
(***************************************************************************)
ArgsReasonDone == "{\"reason\":\"done\"}"
ArgsReasonNumber == "{\"reason\":1}"
ArgsMalformed == "{bad"
ArgsEmpty == ""
ArgsTask == "{\"task\":\"sub task\"}"

\* parseToolCallArguments(raw): trim, '' -> {}, otherwise JSON.parse (which throws
\* a SyntaxError on malformed text).  A parsed object is described by the type and
\* the value of its "reason" property.
parseToolCallArguments(raw) ==
    CASE raw = ArgsEmpty          -> [threw |-> FALSE, reasonType |-> "absent", reason |-> ""]
      [] raw = ArgsReasonDone     -> [threw |-> FALSE, reasonType |-> "string", reason |-> "done"]
      [] raw = ArgsReasonNumber   -> [threw |-> FALSE, reasonType |-> "number", reason |-> "1"]
      [] raw = ArgsTask           -> [threw |-> FALSE, reasonType |-> "absent", reason |-> ""]
      [] OTHER                    -> [threw |-> TRUE,  reasonType |-> "absent", reason |-> "SyntaxError"]

\* the value of an absent / undefined parameter object
Undefined == [defined |-> FALSE, reason |-> ""]

\* tool.parameters.parse(parseToolCallArguments(raw)) for the schema
\* z.object({ reason: z.string() }); `threw` when either step throws, and then
\* `detail` is the text of the underlying error.
SchemaParse(raw) ==
    LET j == parseToolCallArguments(raw) IN
    IF j.threw
      THEN [threw |-> TRUE, value |-> Undefined, detail |-> "SyntaxError in " \o raw]
      ELSE IF j.reasonType = "string"
             THEN [threw |-> FALSE, value |-> [defined |-> TRUE, reason |-> j.reason], detail |-> ""]
             ELSE [threw |-> TRUE, value |-> Undefined, detail |-> "ZodError: reason " \o j.reasonType]

\* SubAgentParamsSchema.parse(parseToolCallArguments(raw)) for the schema
\* z.object({ task: z.string(), inputFiles: z.array(z.string()).default([]) }):
\* of the argument texts only ArgsTask has a `task`
SubAgentParamsParse(raw) ==
    LET j == parseToolCallArguments(raw) IN
    IF j.threw
      THEN [threw |-> TRUE, value |-> Undefined, detail |-> "SyntaxError in " \o raw]
      ELSE IF raw = ArgsTask
             THEN [threw |-> FALSE, value |-> [defined |-> TRUE, reason |-> ""], detail |-> ""]
             ELSE [threw |-> TRUE, value |-> Undefined, detail |-> "ZodError: task Required"]

\* `tool.parameters ? tool.parameters.parse(...) : undefined`
ParseParams(tool, raw) ==
    IF tool.parameters = "null"
      THEN [threw |-> FALSE, value |-> Undefined, detail |-> ""]
      ELSE IF tool.parameters = "subAgent"
             THEN SubAgentParamsParse(raw)
             ELSE SchemaParse(raw)

(***************************************************************************)
(* The scripted model client                                               *)
(***************************************************************************)
\* the tool calls the script may emit
ScriptCalls ==
    { [name |-> FINISH_TOOL_NAME, arguments |-> ArgsReasonDone,   toolCallId |-> "call_f1"],
      [name |-> FINISH_TOOL_NAME, arguments |-> ArgsReasonNumber, toolCallId |-> NoToolCallId],
      [name |-> "toolA",          arguments |-> ArgsReasonDone,   toolCallId |-> "call_a1"],
      [name |-> "toolA",          arguments |-> ArgsMalformed,    toolCallId |-> NoToolCallId],
      [name |-> "ghost",          arguments |-> ArgsEmpty,        toolCallId |-> "call_g1"] }

\* token usage a response may report: none, or input/output counts whose sum is
\* exactly the cutoff share of ClientMaxTokens
NoUsage == [reported |-> FALSE, input |-> 0, output |-> 0]
Usages == { NoUsage, [reported |-> TRUE, input |-> 500, output |-> 200] }

\* a reported usage just below the cutoff of ClientMaxTokens
UsageBelowCutoff == [reported |-> TRUE, input |-> 499, output |-> 200]

SeqsUpTo(S, n) == UNION { [1..k -> S] : k \in 0..n }

\* the usages a response with the tool calls `cs` may report: a response without
\* tool calls reports a usage at the cutoff or just below it, a response with one
\* tool call reports none or one at the cutoff, a longer one reports none
UsagesFor(cs) ==
    IF Len(cs) = 0 THEN (Usages \ {NoUsage}) \cup {UsageBelowCutoff}
    ELSE IF Len(cs) = 1 THEN Usages
    ELSE {NoUsage}

\* the text contents a response with the tool calls `cs` and the usage `u` may
\* have: some text, or no text at all for a response that is one call of toolA
\* with valid arguments and reports no usage
ContentsFor(cs, u) ==
    IF /\ Len(cs) = 1
       /\ cs[1].name = "toolA"
       /\ cs[1].arguments = ArgsReasonDone
       /\ ~u.reported
      THEN {"text", ""}
      ELSE {"text"}

\* assistant messages the script may answer with when `budget` tool calls remain
Responses(budget) ==
    { [role |-> "assistant", content |-> r[3], toolCalls |-> r[1], tokenUsage |-> r[2],
       toolCallId |-> "", name |-> "", argsWasValid |-> TRUE] :
        r \in UNION { UNION { {<<cs, u, text>> : text \in ContentsFor(cs, u)} : u \in UsagesFor(cs)} :
                          cs \in SeqsUpTo(ScriptCalls, budget) } }

\* texts the summarization generate call may answer with
Summaries == { "summary" }

(***************************************************************************)
(* Messages, events, metadata                                              *)
(***************************************************************************)
NoCalls == << >>

Msg(role, content) ==
    [role |-> role, content |-> content, toolCalls |-> NoCalls, tokenUsage |-> NoUsage,
     toolCallId |-> "", name |-> "", argsWasValid |-> TRUE]

SystemMessage == Msg("system", "system prompt")
UserMessage(text) == Msg("user", text)

\* a ToolMessage literal of runTool
ToolMessage(content, toolCallId, name, argsWasValid) ==
    [role |-> "tool", content |-> content, toolCalls |-> NoCalls, tokenUsage |-> NoUsage,
     toolCallId |-> toolCallId, name |-> name, argsWasValid |-> argsWasValid]

\* a ToolMessage that loses the id of the call it answers
ToolCallIdDropped(toolCall) == ""

\* `toolCall.toolCallId ?? ''`
ToolCallIdOrEmpty(toolCall) ==
    IF toolCall.toolCallId = NoToolCallId THEN "" ELSE toolCall.toolCallId

Event(type, name, t) == [type |-> type, name |-> name, turn |-> t]

\* a token usage record that leaves out the output tokens
TokenUsageMetadataInputOnly(u) ==
    [cls |-> "TokenUsageMetadata", input |-> u.input, output |-> 0, reasoning |-> 0, numUses |-> 0]

\* TokenUsageMetadata.fromTokenUsage(usage)
TokenUsageMetadata(u) ==
    [cls |-> "TokenUsageMetadata", input |-> u.input, output |-> u.output, reasoning |-> 0, numUses |-> 0]
ToolUseCountMetadata(n) ==
    [cls |-> "ToolUseCountMetadata", input |-> 0, output |-> 0, reasoning |-> 0, numUses |-> n]

\* what a handler invocation may settle with: a result whose `metadata` is one
\* ToolUseCountMetadata, or an error
HandlerOutcomes ==
    { [threw |-> FALSE, content |-> "tool result", metadata |-> <<ToolUseCountMetadata(1)>>],
      [threw |-> TRUE,  content |-> "boom",        metadata |-> << >>] }

\* a metadata value that is a string: running `"add" in value` is never reached
\* for it, because typeof value is not "object"
StringMetadata == [cls |-> "string", value |-> "note"]

\* the number 0 returned as metadata
ZeroMetadata == [cls |-> "number", value |-> "0"]

\* handlers that may also return a result without metadata, a larger count, a
\* string, or the number 0
HandlerOutcomesWithMetadata ==
    HandlerOutcomes \cup
    { [threw |-> FALSE, content |-> "tool result", metadata |-> << >>],
      [threw |-> FALSE, content |-> "tool result", metadata |-> <<ToolUseCountMetadata(2)>>],
      [threw |-> FALSE, content |-> "tool result", metadata |-> <<StringMetadata>>],
      [threw |-> FALSE, content |-> "tool result", metadata |-> <<ZeroMetadata>>] }

\* `if (result.metadata)` of runTool: the values of the model that are falsy
Truthy(v) == v # ZeroMetadata

\* the metadata runTool pushes for a result: result.metadata when it is truthy
PushedMetadata(outcome) == SelectSeq(outcome.metadata, Truthy)

\* new SubAgentMetadata(messageHistory, runMetadata)
SubAgentMetadata(history, md) ==
    [cls |-> "SubAgentMetadata", messageHistory |-> history, runMetadata |-> md]

\* an array of metadata values as the value of a key of the aggregated metadata
ArrayValue(values) == [cls |-> "Array", values |-> values]

\* SubAgentMetadata.mergeMetadata(a, b): the keys of both; for a key of both, two
\* arrays (`Array.isArray`) are concatenated and any other value of b replaces
\* that of a
mergeMetadata(a, b) ==
    [k \in DOMAIN a \cup DOMAIN b |->
        IF k \notin DOMAIN b THEN a[k]
        ELSE IF k \in DOMAIN a /\ a[k].cls = "Array" /\ b[k].cls = "Array"
          THEN ArrayValue(a[k].values \o b[k].values)
          ELSE b[k]]

\* an add whose right operand counts twice
MetadataAddLopsided(a, b) ==
    [cls |-> a.cls, input |-> a.input + b.input, output |-> a.output + b.output,
     reasoning |-> a.reasoning + b.reasoning, numUses |-> a.numUses + 2 * b.numUses]

\* an object of class cls whose number fields are all NaN
NaNMetadata(cls) == [cls |-> cls, nan |-> TRUE]

\* a.add(b) of the Addable metadata classes.  The add of TokenUsageMetadata and
\* of ToolUseCountMetadata adds number fields: a field that b does not have is
\* undefined, and a sum with undefined or NaN is NaN.
MetadataAdd(a, b) ==
    IF a.cls = "SubAgentMetadata"
      THEN SubAgentMetadata(a.messageHistory \o b.messageHistory,
                            mergeMetadata(a.runMetadata, b.runMetadata))
      ELSE IF b.cls # a.cls \/ "nan" \in DOMAIN a \/ "nan" \in DOMAIN b
        THEN NaNMetadata(a.cls)
        ELSE [cls |-> a.cls, input |-> a.input + b.input, output |-> a.output + b.output,
              reasoning |-> a.reasoning + b.reasoning, numUses |-> a.numUses + b.numUses]

RECURSIVE FoldAdd(_, _, _)
FoldAdd(acc, values, i) ==
    IF i > Len(values) THEN acc ELSE FoldAdd(MetadataAdd(acc, values[i]), values, i + 1)

\* `firstValue && typeof firstValue === 'object' && 'add' in firstValue`
IsAddable(v) == v.cls \in {"TokenUsageMetadata", "ToolUseCountMetadata", "SubAgentMetadata"}

\* the value aggregateMetadata stores for a non-empty list: when the first value
\* is Addable the values folded with add in list order, otherwise the list
AggregatedValue(values) ==
    IF IsAddable(values[1]) THEN FoldAdd(values[1], values, 2) ELSE ArrayValue(values)

\* aggregateMetadata(runMetadata): keys with an empty list yield no entry
aggregateMetadata(md) ==
    [k \in {x \in DOMAIN md : Len(md[x]) > 0} |-> AggregatedValue(md[k])]

EmptyMetadata == [k \in {} |-> << >>]

PendingOutcome ==
    [kind |-> "pending", error |-> "", finishParams |-> Undefined,
     messageHistory |-> << >>, runMetadata |-> EmptyMetadata]

(***************************************************************************)
(* Agent.initialize: the tool registry                                     *)
(***************************************************************************)
\* tools configured for the agent (config.tools): one plain tool with a schema
ConfiguredTools == { [name |-> "toolA", parameters |-> "schema"] }

\* the registry after initialize(): each configured tool under its name, then
\* the finish tool (if any) under FINISH_TOOL_NAME
InitialActiveTools(ft) ==
    LET names == {t.name : t \in ConfiguredTools}
                   \cup (IF ft = "none" THEN {} ELSE {FINISH_TOOL_NAME}) IN
    [n \in names |->
        IF n = FINISH_TOOL_NAME /\ ft # "none"
          THEN [name |-> FINISH_TOOL_NAME, parameters |-> ft]
          ELSE CHOOSE t \in ConfiguredTools : t.name = n]

(***************************************************************************)
(* Sub-agent bridge: agents, sessions and ambient stores                   *)
(***************************************************************************)
\* nesting levels: the root agent is level 0, the agent it exposes as a tool is
\* level 1, and so on
Levels == 0..MaxNesting
SubLevels == 1..MaxNesting

\* AsyncLocalStorage.getStore() outside any run(): undefined
NoStore == -1

\* this.sessionState is undefined
NoSession == -1

\* the session fields of a newly constructed Agent
FreshAgent ==
    [isInitialized |-> FALSE, depth |-> NoSession, execEnv |-> FALSE,
     exitStack |-> << >>, stackDisposed |-> FALSE, toolsRegistered |-> FALSE,
     lastFinishParams |-> "undefined"]

SubIdle ==
    /\ customSystemPrompt = [l \in SubLevels |-> FALSE]
    /\ codeExec = [l \in Levels |-> FALSE]
    /\ agents = [l \in Levels |-> FreshAgent]
    /\ providers = [l \in Levels |-> "new"]
    /\ frames = << >>
    /\ sessionStore = NoStore
    /\ parentDepthStore = NoStore
    /\ toolCallsMade = 0
    /\ subLog = << >>

(***************************************************************************)
(* Session initialization: the configured tools                            *)
(***************************************************************************)
\* entries of config.tools: a plain tool, a plain tool that took the name of the
\* finish tool, a tool provider, and two code-execution providers; `provides` is
\* the name of the tool the entry registers
ToolA == [name |-> "toolA", kind |-> "tool", provides |-> "toolA", parameters |-> "schema"]
ToolNamedFinish ==
    [name |-> FINISH_TOOL_NAME, kind |-> "tool", provides |-> FINISH_TOOL_NAME, parameters |-> "null"]
ProviderP == [name |-> "providerP", kind |-> "provider", provides |-> "p_tool", parameters |-> "schema"]
CodeExecA == [name |-> "codeExecA", kind |-> "codeExec", provides |-> "code_exec", parameters |-> "schema"]
CodeExecB == [name |-> "codeExecB", kind |-> "codeExec", provides |-> "code_exec", parameters |-> "schema"]

ToolEntries == {ToolA, ToolNamedFinish, ProviderP, CodeExecA, CodeExecB}

\* the session configuration of an agent built with tools: [toolA] and no session()
InitIdle ==
    /\ tools = <<ToolA>>
    /\ sessionConfig = [inputFiles |-> FALSE, skillsDir |-> FALSE]
    /\ pendingInputFiles = FALSE
    /\ pendingSkillsDir = FALSE
    /\ ipc = "idle"
    /\ toolCursor = 1
    /\ execEnv = ""
    /\ initLog = << >>

\* the executor of the sub-agent tool has caught no error
NoError == ""

\* no sub-agent run is in progress: the child agent is not initialized, and the
\* executor of its tool has not run
ChildIdle(maxT) ==
    [pc |-> "idle", maxTurns |-> maxT, turn |-> 0, currentMessages |-> << >>,
     currentGroup |-> << >>, messageHistory |-> << >>, runMetadata |-> EmptyMetadata,
     finishParams |-> Undefined, result |-> PendingOutcome,
     isInitialized |-> FALSE, stackDisposed |-> FALSE, caught |-> NoError]

\* asyncDispose has not been called
DisposalIdle ==
    [pc |-> "idle", outputDir |-> "", depth |-> 0, parentExecEnv |-> FALSE,
     saves |-> << >>, saveThrew |-> FALSE, outcome |-> "pending"]

\* nothing has been aggregated
AggIdle ==
    [values |-> << >>, done |-> FALSE, result |-> EmptyMetadata, splits |-> {}, groupings |-> {}]

\* no summarization call has returned, no enterContext() call is pending
MoreIdle == summaryCalls = << >> /\ entering = {}

LateIdle == disposal = DisposalIdle /\ agg = AggIdle /\ MoreIdle

SessIdle ==
    /\ runCalls = << >>
    /\ throwingSubscribers = {}
    /\ child = ChildIdle(0)
    /\ LateIdle

ExtIdle == SubIdle /\ InitIdle /\ SessIdle

(***************************************************************************)
(* Initial states                                                          *)
(***************************************************************************)
AgentIdle ==
    /\ aborted = FALSE
    /\ isInitialized = FALSE
    /\ activeTools = [n \in {} |-> [name |-> "", parameters |-> "null"]]
    /\ lastFinishParams = Undefined
    /\ pc = "idle"
    /\ turn = 0
    /\ currentMessages = << >>
    /\ currentGroup = << >>
    /\ messageHistory = << >>
    /\ runMetadata = EmptyMetadata
    /\ finishParams = Undefined
    /\ runOutcome = PendingOutcome
    /\ assistantMessage = Msg("assistant", "")
    /\ idx = 1
    /\ toolMessages = << >>
    /\ inFlight = {}
    /\ genInFlight = "none"
    /\ events = << >>
    /\ genCalls = 0
    /\ invocations = << >>
    /\ settlements = << >>
    /\ scriptCalls = 0

StackIdle ==
    /\ stack = << >>
    /\ disposed = FALSE
    /\ dpc = "idle"
    /\ running = ""
    /\ errors = << >>
    /\ cleanupLog = << >>
    /\ registered = << >>
    /\ disposeOutcome = "pending"
    /\ disposeThrown = << >>
    /\ cleanupFailed = << >>
    /\ disposeCallLog = << >>

\* an agent constructed with some configuration, run() not yet called
Init ==
    /\ maxTurns \in 0..MaxTurns
    /\ finishTool \in {"none", "schema", "null"}
    /\ hasSignal \in BOOLEAN
    /\ AgentIdle
    /\ StackIdle
    /\ ExtIdle

(***************************************************************************)
(* Agent.run                                                               *)
(***************************************************************************)
\* a check that never observes the abort
ThrowIfAbortedNever(signalGiven, signalAborted) == FALSE

\* a check that observes the abort in the first turn only
ThrowIfAbortedFirstTurnOnly(signalGiven, signalAborted) ==
    signalGiven /\ signalAborted /\ turn = 0

\* `signal?.throwIfAborted()` throws: a signal was supplied and it is aborted
ThrowIfAborted(signalGiven, signalAborted) == signalGiven /\ signalAborted

\* the caller consumes runStream() to its end instead of awaiting run()
Streaming == runCalls # << >> /\ runCalls[1].kind = "runStream"

\* the events of the run loop that reach the listeners: run() publishes them with
\* this.emit, runStream() yields the corresponding stream events to its consumer
\* and emits nothing itself (step() and runTool() emit in both)
Emitted(evs) == IF Streaming THEN << >> ELSE evs

\* the catch block of run(): emit run:error and rethrow
Reject(err) ==
    /\ events' = events \o Emitted(<<Event("run:error", err, turn)>>)
    /\ runOutcome' = [PendingOutcome EXCEPT !.kind = "rejected", !.error = err]
    /\ pc' = "rejected"

\* the caller aborts its AbortSignal (at any moment before run() settles)
Abort ==
    /\ hasSignal
    /\ ~aborted
    /\ pc \notin {"returned", "rejected"}
    /\ aborted' = TRUE
    /\ UNCHANGED <<maxTurns, finishTool, hasSignal, isInitialized, activeTools,
                   lastFinishParams, pc, turn, currentMessages, currentGroup, messageHistory,
                   runMetadata, finishParams, runOutcome, assistantMessage, idx, toolMessages,
                   inFlight, genInFlight, events, genCalls, invocations, scriptCalls, settlements, stackVars, extVars>>

\* run() is called: emit run:start, enter the try block and await initialize()
RunStart ==
    /\ pc = "idle"
    /\ events' = events \o Emitted(<<Event("run:start", "", 0)>>)
    /\ pc' = "initialize"
    /\ UNCHANGED <<maxTurns, finishTool, hasSignal, aborted, isInitialized, activeTools,
                   lastFinishParams, turn, currentMessages, currentGroup, messageHistory,
                   runMetadata, finishParams, runOutcome, assistantMessage, idx, toolMessages,
                   inFlight, genInFlight, genCalls, invocations, scriptCalls, settlements, stackVars, extVars>>

\* initialize() completes: the registry is populated, the finish tool last
Initialize ==
    /\ pc = "initialize"
    /\ activeTools' = InitialActiveTools(finishTool)
    /\ isInitialized' = TRUE
    /\ pc' = "initialized"
    /\ UNCHANGED <<maxTurns, finishTool, hasSignal, aborted,
                   lastFinishParams, turn, currentMessages, currentGroup, messageHistory,
                   runMetadata, finishParams, runOutcome, assistantMessage, idx, toolMessages,
                   inFlight, genInFlight, events, genCalls, invocations, scriptCalls, settlements, stackVars, extVars>>

\* signal?.throwIfAborted() after initialization finds the signal aborted
AbortAfterInit ==
    /\ pc = "initialized"
    /\ ThrowIfAborted(hasSignal, aborted)
    /\ Reject("abort")
    /\ UNCHANGED <<maxTurns, finishTool, hasSignal, aborted, isInitialized, activeTools,
                   lastFinishParams, turn, currentMessages, currentGroup, messageHistory,
                   runMetadata, finishParams, assistantMessage, idx, toolMessages,
                   inFlight, genInFlight, genCalls, invocations, scriptCalls, settlements, stackVars, extVars>>

\* run(): build the message list, the first group and the metadata accumulator
SetupWith(messages) ==
    /\ pc = "initialized"
    /\ ~ThrowIfAborted(hasSignal, aborted)
    /\ currentMessages' = <<SystemMessage>> \o messages
    /\ currentGroup' = <<SystemMessage>> \o messages
    /\ messageHistory' = << >>
    /\ runMetadata' = [k \in {"token_usage"} \cup DOMAIN activeTools |-> << >>]
    /\ finishParams' = Undefined
    /\ turn' = 0
    /\ pc' = "turnTop"
    /\ UNCHANGED <<maxTurns, finishTool, hasSignal, aborted, isInitialized, activeTools,
                   lastFinishParams, runOutcome, assistantMessage, idx, toolMessages,
                   inFlight, genInFlight, events, genCalls, invocations, scriptCalls, settlements, stackVars, extVars>>

\* `typeof initMessages === 'string' ? [{ role: 'user', content: initMessages }]`
\* for the task string "task"
InitMessages == <<UserMessage("task")>>

\* run(initMessages) called with a string: the messages are one user message
Setup == SetupWith(InitMessages)

\* a loop that runs one turn too many
LoopConditionOffByOne(t, maxT) == t <= maxT

\* the condition of the turn loop: `turn < this.maxTurns`
LoopCondition(t, maxT) == t < maxT

\* signal?.throwIfAborted() at the top of a turn finds the signal aborted
AbortAtTurnTop ==
    /\ pc = "turnTop"
    /\ LoopCondition(turn, maxTurns)
    /\ ThrowIfAborted(hasSignal, aborted)
    /\ Reject("abort")
    /\ UNCHANGED <<maxTurns, finishTool, hasSignal, aborted, isInitialized, activeTools,
                   lastFinishParams, turn, currentMessages, currentGroup, messageHistory,
                   runMetadata, finishParams, assistantMessage, idx, toolMessages,
                   inFlight, genInFlight, genCalls, invocations, scriptCalls, settlements, stackVars, extVars>>

\* top of a turn: emit turn:start and issue the primary generate call of step()
TurnStart ==
    /\ pc = "turnTop"
    /\ LoopCondition(turn, maxTurns)
    /\ ~ThrowIfAborted(hasSignal, aborted)
    /\ events' = events \o Emitted(<<Event("turn:start", "", turn)>>)
    /\ genCalls' = genCalls + 1
    /\ genInFlight' = "primary"
    /\ pc' = "generate"
    /\ UNCHANGED <<maxTurns, finishTool, hasSignal, aborted, isInitialized, activeTools,
                   lastFinishParams, turn, currentMessages, currentGroup, messageHistory,
                   runMetadata, finishParams, runOutcome, assistantMessage, idx, toolMessages,
                   inFlight, invocations, scriptCalls, settlements, stackVars, extVars>>

\* the turn loop ends because turn reached maxTurns
TurnsExhausted ==
    /\ pc = "turnTop"
    /\ ~LoopCondition(turn, maxTurns)
    /\ pc' = "finalize"
    /\ UNCHANGED <<maxTurns, finishTool, hasSignal, aborted, isInitialized, activeTools,
                   lastFinishParams, turn, currentMessages, currentGroup, messageHistory,
                   runMetadata, finishParams, runOutcome, assistantMessage, idx, toolMessages,
                   inFlight, genInFlight, events, genCalls, invocations, scriptCalls, settlements, stackVars, extVars>>

(***************************************************************************)
(* Agent.step and Agent.runTool                                            *)
(***************************************************************************)
\* an assistant message is announced only when it has text
EmitsAssistantMessageTextOnly(resp) == resp.content # ""

\* `if (assistantMessage.content || assistantMessage.toolCalls)`
EmitsAssistantMessage(resp) == resp.content # "" \/ resp.toolCalls # NoCalls

\* the primary generate call resolves with an assistant message: record the
\* token usage, emit message:assistant, enter the tool-call loop
GenerateReturn(resp) ==
    /\ pc = "generate"
    /\ genInFlight = "primary"
    /\ genInFlight' = "none"
    /\ assistantMessage' = resp
    /\ scriptCalls' = scriptCalls + Len(resp.toolCalls)
    /\ runMetadata' =
         IF resp.tokenUsage.reported /\ "token_usage" \in DOMAIN runMetadata
           THEN [runMetadata EXCEPT !["token_usage"] = Append(@, TokenUsageMetadata(resp.tokenUsage))]
           ELSE runMetadata
    /\ events' =
         IF EmitsAssistantMessage(resp)
           THEN Append(events, Event("message:assistant", "", turn))
           ELSE events
    /\ toolMessages' = << >>
    /\ idx' = 1
    /\ pc' = "tools"
    /\ UNCHANGED <<maxTurns, finishTool, hasSignal, aborted, isInitialized, activeTools,
                   lastFinishParams, turn, currentMessages, currentGroup, messageHistory,
                   finishParams, runOutcome, inFlight, genCalls, invocations, settlements, stackVars, extVars>>

\* the primary generate call rejects: the error leaves step() and run()
GenerateThrow ==
    /\ pc = "generate"
    /\ genInFlight = "primary"
    /\ genInFlight' = "none"
    /\ Reject("client error")
    /\ UNCHANGED <<maxTurns, finishTool, hasSignal, aborted, isInitialized, activeTools,
                   lastFinishParams, turn, currentMessages, currentGroup, messageHistory,
                   runMetadata, finishParams, assistantMessage, idx, toolMessages,
                   inFlight, genCalls, invocations, scriptCalls, settlements, stackVars, extVars>>

\* tool calls dispatched without awaiting the previous one
MayStartNextConcurrent(flight) == TRUE

\* `await this.runTool(...)` inside the for-loop of step(): the next tool call is
\* started only when no earlier call of the loop is pending
MayStartNext(flight) == flight = {}

\* an unknown tool reported as a call with valid arguments
UnknownToolMessageAsValid(toolCall) ==
    ToolMessage("Error: '" \o toolCall.name \o "' is not a valid tool",
                ToolCallIdOrEmpty(toolCall), toolCall.name, TRUE)

\* runTool for a name that is not in the registry
UnknownToolMessage(toolCall) ==
    ToolMessage("Error: '" \o toolCall.name \o "' is not a valid tool",
                ToolCallIdOrEmpty(toolCall), toolCall.name, FALSE)

\* the validation error leaked verbatim into the ToolMessage
InvalidArgsMessageLeaky(toolCall, detail) ==
    ToolMessage("Tool arguments are not valid: " \o detail,
                ToolCallIdOrEmpty(toolCall), toolCall.name, FALSE)

\* runTool when parsing or validating the arguments threw
InvalidArgsMessage(toolCall, detail) ==
    ToolMessage("Tool arguments are not valid", ToolCallIdOrEmpty(toolCall), toolCall.name, FALSE)

\* an executor failure reported as a validation failure
ExecutorErrorMessageAsInvalid(toolCall, errorMessage) ==
    ToolMessage("Error executing tool: " \o errorMessage,
                ToolCallIdOrEmpty(toolCall), toolCall.name, FALSE)

\* runTool when the executor threw or rejected with the given message
ExecutorErrorMessage(toolCall, errorMessage) ==
    ToolMessage("Error executing tool: " \o errorMessage,
                ToolCallIdOrEmpty(toolCall), toolCall.name, TRUE)

\* runTool when the executor returned a result
ExecutorResultMessage(toolCall, content) ==
    ToolMessage(content, ToolCallIdOrEmpty(toolCall), toolCall.name, TRUE)

\* runTool, unknown tool name: the ToolMessage is returned without any executor call
RunToolUnknown ==
    /\ pc = "tools"
    /\ idx <= Len(assistantMessage.toolCalls)
    /\ MayStartNext(inFlight)
    /\ LET toolCall == assistantMessage.toolCalls[idx] IN
         /\ toolCall.name \notin DOMAIN activeTools
         /\ toolMessages' = Append(toolMessages, UnknownToolMessage(toolCall))
    /\ idx' = idx + 1
    /\ UNCHANGED <<maxTurns, finishTool, hasSignal, aborted, isInitialized, activeTools,
                   lastFinishParams, pc, turn, currentMessages, currentGroup, messageHistory,
                   runMetadata, finishParams, runOutcome, assistantMessage,
                   inFlight, genInFlight, events, genCalls, invocations, scriptCalls, settlements, stackVars, extVars>>

\* runTool, arguments do not parse or validate: emit tool:error, return the
\* generic ToolMessage without any executor call
RunToolInvalid ==
    /\ pc = "tools"
    /\ idx <= Len(assistantMessage.toolCalls)
    /\ MayStartNext(inFlight)
    /\ LET toolCall == assistantMessage.toolCalls[idx] IN
         /\ toolCall.name \in DOMAIN activeTools
         /\ LET p == ParseParams(activeTools[toolCall.name], toolCall.arguments) IN
              /\ p.threw
              /\ toolMessages' = Append(toolMessages, InvalidArgsMessage(toolCall, p.detail))
         /\ events' = Append(events, Event("tool:error", toolCall.name, turn))
    /\ idx' = idx + 1
    /\ UNCHANGED <<maxTurns, finishTool, hasSignal, aborted, isInitialized, activeTools,
                   lastFinishParams, pc, turn, currentMessages, currentGroup, messageHistory,
                   runMetadata, finishParams, runOutcome, assistantMessage,
                   inFlight, genInFlight, genCalls, invocations, scriptCalls, settlements, stackVars, extVars>>

\* runTool, arguments valid: emit tool:start and call the executor
RunToolInvoke ==
    /\ pc = "tools"
    /\ idx <= Len(assistantMessage.toolCalls)
    /\ MayStartNext(inFlight)
    /\ LET toolCall == assistantMessage.toolCalls[idx] IN
         /\ toolCall.name \in DOMAIN activeTools
         /\ LET p == ParseParams(activeTools[toolCall.name], toolCall.arguments) IN
              /\ ~p.threw
              /\ invocations' = Append(invocations,
                     [turn |-> turn, index |-> idx, name |-> toolCall.name, params |-> p.value])
         /\ events' = Append(events, Event("tool:start", toolCall.name, turn))
    /\ inFlight' = inFlight \cup {idx}
    /\ idx' = idx + 1
    /\ UNCHANGED <<maxTurns, finishTool, hasSignal, aborted, isInitialized, activeTools,
                   lastFinishParams, pc, turn, currentMessages, currentGroup, messageHistory,
                   runMetadata, finishParams, runOutcome, assistantMessage, toolMessages,
                   genInFlight, genCalls, scriptCalls, settlements, stackVars, extVars>>

\* a pending executor call settles: on a result emit tool:complete, record its
\* metadata and return the result message; on an error emit tool:error and
\* return the error message
ExecutorSettles(i, outcome) ==
    /\ pc = "tools"
    /\ i \in inFlight
    /\ inFlight' = inFlight \ {i}
    /\ settlements' = Append(settlements,
           [turn |-> turn, index |-> i, name |-> assistantMessage.toolCalls[i].name,
            threw |-> outcome.threw, metadata |-> outcome.metadata])
    /\ LET toolCall == assistantMessage.toolCalls[i] IN
         IF outcome.threw
           THEN /\ events' = Append(events, Event("tool:error", toolCall.name, turn))
                /\ toolMessages' = Append(toolMessages, ExecutorErrorMessage(toolCall, outcome.content))
                /\ UNCHANGED runMetadata
           ELSE /\ events' = Append(events, Event("tool:complete", toolCall.name, turn))
                /\ toolMessages' = Append(toolMessages, ExecutorResultMessage(toolCall, outcome.content))
                /\ runMetadata' = [runMetadata EXCEPT ![toolCall.name] = @ \o PushedMetadata(outcome)]
    /\ UNCHANGED <<maxTurns, finishTool, hasSignal, aborted, isInitialized, activeTools,
                   lastFinishParams, pc, turn, currentMessages, currentGroup, messageHistory,
                   finishParams, runOutcome, assistantMessage, idx,
                   genInFlight, genCalls, invocations, scriptCalls, stackVars, extVars>>

(***************************************************************************)
(* Agent.run: after step() returned                                        *)
(***************************************************************************)
\* the finish detection loop of run(): the first call named FINISH_TOOL_NAME whose
\* arguments parse assigns finishParams and breaks; a call whose arguments throw
\* is skipped.  A finish tool without a schema assigns undefined.
RECURSIVE FinishScan(_, _, _)
FinishScan(ft, calls, i) ==
    IF i > Len(calls)
      THEN Undefined
      ELSE IF calls[i].name = FINISH_TOOL_NAME /\ ft # "none"
             THEN LET p == ParseParams([name |-> FINISH_TOOL_NAME, parameters |-> ft],
                                       calls[i].arguments) IN
                  IF p.threw THEN FinishScan(ft, calls, i + 1) ELSE p.value
             ELSE FinishScan(ft, calls, i + 1)

\* a trigger that requires the usage to exceed the cutoff
NeedsSummarizationStrict(msg) ==
    /\ msg.tokenUsage.reported
    /\ (msg.tokenUsage.input + msg.tokenUsage.output) * 10 > CutoffTenths * ClientMaxTokens

\* `percentUsed >= this.contextSummarizationCutoff` for a response's token usage
NeedsSummarization(msg) ==
    /\ msg.tokenUsage.reported
    /\ (msg.tokenUsage.input + msg.tokenUsage.output) * 10 >= CutoffTenths * ClientMaxTokens

\* the message:tool events of one turn followed by its turn:complete event
TurnEndEvents(tms, t) ==
    [i \in 1..Len(tms) |-> Event("message:tool", tms[i].name, t)]
        \o <<Event("turn:complete", "", t)>>

\* step() has returned (every tool call of the turn has its ToolMessage)
StepReturned ==
    /\ pc = "tools"
    /\ idx > Len(assistantMessage.toolCalls)
    /\ inFlight = {}

\* the turn's messages are appended; a finish call with valid arguments was found:
\* seal the group and leave the loop
TurnEndFinish ==
    /\ StepReturned
    /\ LET found == FinishScan(finishTool, assistantMessage.toolCalls, 1)
           group == currentGroup \o <<assistantMessage>> \o toolMessages IN
         /\ found.defined
         /\ finishParams' = found
         /\ currentGroup' = group
         /\ messageHistory' = Append(messageHistory, group)
    /\ currentMessages' = currentMessages \o <<assistantMessage>> \o toolMessages
    /\ events' = events \o Emitted(TurnEndEvents(toolMessages, turn))
    /\ pc' = "finalize"
    /\ UNCHANGED <<maxTurns, finishTool, hasSignal, aborted, isInitialized, activeTools,
                   lastFinishParams, turn, runMetadata, runOutcome, assistantMessage, idx,
                   toolMessages, inFlight, genInFlight, genCalls, invocations, scriptCalls,
                   settlements, stackVars, extVars>>

\* the turn's messages are appended; no finish; the usage is below the cutoff:
\* next turn
TurnEndContinue ==
    /\ StepReturned
    /\ ~FinishScan(finishTool, assistantMessage.toolCalls, 1).defined
    /\ ~NeedsSummarization(assistantMessage)
    /\ finishParams' = FinishScan(finishTool, assistantMessage.toolCalls, 1)
    /\ currentGroup' = currentGroup \o <<assistantMessage>> \o toolMessages
    /\ currentMessages' = currentMessages \o <<assistantMessage>> \o toolMessages
    /\ events' = events \o Emitted(TurnEndEvents(toolMessages, turn))
    /\ turn' = turn + 1
    /\ pc' = "turnTop"
    /\ UNCHANGED <<maxTurns, finishTool, hasSignal, aborted, isInitialized, activeTools,
                   lastFinishParams, messageHistory, runMetadata, runOutcome, assistantMessage,
                   idx, toolMessages, inFlight, genInFlight, genCalls, invocations, scriptCalls,
                   settlements, stackVars, extVars>>

\* the turn's messages are appended; no finish; the usage meets the cutoff: emit
\* summarization:start, seal the group and issue the summarization generate call
TurnEndSummarize ==
    /\ StepReturned
    /\ ~FinishScan(finishTool, assistantMessage.toolCalls, 1).defined
    /\ NeedsSummarization(assistantMessage)
    /\ finishParams' = FinishScan(finishTool, assistantMessage.toolCalls, 1)
    /\ LET group == currentGroup \o <<assistantMessage>> \o toolMessages IN
         /\ currentGroup' = group
         /\ messageHistory' = Append(messageHistory, group)
    /\ currentMessages' = currentMessages \o <<assistantMessage>> \o toolMessages
    /\ events' = events \o Emitted(TurnEndEvents(toolMessages, turn)
                                    \o <<Event("summarization:start", "", turn)>>)
    /\ genInFlight' = "summary"
    /\ pc' = "summarizing"
    /\ UNCHANGED <<maxTurns, finishTool, hasSignal, aborted, isInitialized, activeTools,
                   lastFinishParams, turn, runMetadata, runOutcome, assistantMessage,
                   idx, toolMessages, inFlight, genCalls, invocations, scriptCalls, settlements, stackVars, extVars>>

(***************************************************************************)
(* Agent.summarizeMessages                                                 *)
(***************************************************************************)
\* messages.findIndex(m => m.role === 'assistant'), 0-based, -1 when there is none
FirstAssistantIndex(messages) ==
    IF \E i \in 1..Len(messages) : messages[i].role = "assistant"
      THEN (CHOOSE i \in 1..Len(messages) :
               /\ messages[i].role = "assistant"
               /\ \A j \in 1..(i - 1) : messages[j].role # "assistant") - 1
      ELSE -1

\* the preserved prefix: everything before the first assistant message, or the
\* first message alone when findIndex returned 0 or -1
TaskContext(messages) ==
    LET taskContextEnd == FirstAssistantIndex(messages) IN
    IF taskContextEnd > 0 THEN SubSeq(messages, 1, taskContextEnd) ELSE SubSeq(messages, 1, 1)

\* MESSAGE_SUMMARIZER_BRIDGE_TEMPLATE(summaryText)
BridgeMessage(summary) ==
    UserMessage("[Previous conversation summarized below] " \o summary \o " [Resuming conversation]")

\* a summary that also keeps the last message of the summarized list
SummarizedKeepingLast(messages, summary) ==
    TaskContext(messages) \o <<messages[Len(messages)], BridgeMessage(summary)>>

\* the list summarizeMessages returns
Summarized(messages, summary) == Append(TaskContext(messages), BridgeMessage(summary))

\* the summarization generate call resolves: the active list becomes the task
\* context plus the bridge message, a fresh group begins, next turn
SummarizeResumes(summary) ==
    /\ pc = "summarizing"
    /\ genInFlight = "summary"
    /\ genInFlight' = "none"
    /\ currentMessages' = Summarized(currentMessages, summary)
    /\ currentGroup' = Summarized(currentMessages, summary)
    /\ events' = events \o Emitted(<<Event("summarization:complete", "", turn)>>)
    /\ turn' = turn + 1
    /\ pc' = "turnTop"
    /\ UNCHANGED <<maxTurns, finishTool, hasSignal, aborted, isInitialized, activeTools,
                   lastFinishParams, messageHistory, runMetadata, finishParams, runOutcome,
                   assistantMessage, idx, toolMessages, inFlight, genCalls, invocations,
                   scriptCalls, settlements, stackVars>>

\* the summarization call resolves with a response whose content is `summary`
SummarizeReturn(summary) == SummarizeResumes(summary) /\ UNCHANGED extVars

\* the summarization generate call rejects: the error leaves run()
SummarizeThrow ==
    /\ pc = "summarizing"
    /\ genInFlight = "summary"
    /\ genInFlight' = "none"
    /\ Reject("client error")
    /\ UNCHANGED <<maxTurns, finishTool, hasSignal, aborted, isInitialized, activeTools,
                   lastFinishParams, turn, currentMessages, currentGroup, messageHistory,
                   runMetadata, finishParams, assistantMessage, idx, toolMessages,
                   inFlight, genCalls, invocations, scriptCalls, settlements, stackVars, extVars>>

\* a run that never seals the group it ends with
SealedHistoryWithoutLast(history, group, fp) == history

\* `if (finishParams === undefined && currentGroup.length > 0)
\*    messageHistory.push(currentGroup)`
SealedHistory(history, group, fp) ==
    IF ~fp.defined /\ Len(group) > 0 THEN Append(history, group) ELSE history

\* after the loop: seal the last group if no finish was found, aggregate the
\* metadata, remember the finish parameters, emit run:complete and return
Finalize ==
    /\ pc = "finalize"
    /\ LET history == SealedHistory(messageHistory, currentGroup, finishParams) IN
         /\ messageHistory' = history
         /\ runOutcome' = [kind |-> "returned", error |-> "", finishParams |-> finishParams,
                           messageHistory |-> history,
                           runMetadata |-> aggregateMetadata(runMetadata)]
    /\ lastFinishParams' = finishParams
    /\ events' = events \o Emitted(<<Event("run:complete", "", turn)>>)
    /\ pc' = "returned"
    /\ UNCHANGED <<maxTurns, finishTool, hasSignal, aborted, isInitialized, activeTools,
                   turn, currentMessages, currentGroup, runMetadata, finishParams,
                   assistantMessage, idx, toolMessages, inFlight, genInFlight, genCalls,
                   invocations, scriptCalls, settlements, stackVars, extVars>>

(***************************************************************************)
(* Specification of one run                                                *)
(***************************************************************************)
Next ==
    \/ Abort
    \/ RunStart
    \/ Initialize
    \/ AbortAfterInit
    \/ Setup
    \/ AbortAtTurnTop
    \/ TurnStart
    \/ TurnsExhausted
    \/ \E resp \in Responses(MaxScriptCalls - scriptCalls) : GenerateReturn(resp)
    \/ GenerateThrow
    \/ RunToolUnknown
    \/ RunToolInvalid
    \/ RunToolInvoke
    \/ \E i \in inFlight : \E outcome \in HandlerOutcomes : ExecutorSettles(i, outcome)
    \/ TurnEndFinish
    \/ TurnEndContinue
    \/ TurnEndSummarize
    \/ \E summary \in Summaries : SummarizeReturn(summary)
    \/ SummarizeThrow
    \/ Finalize

Spec == Init /\ [][Next]_vars

(***************************************************************************)
(* AsyncDisposableStack                                                    *)
(***************************************************************************)
\* the cleanup callbacks a caller may register, each at most once
Resources == {"A", "B", "C", "D"}

RangeOf(q) == {q[i] : i \in 1..Len(q)}

\* stack.shift(): first registered, first disposed
PopFirst(stk) == [cleanup |-> stk[1], rest |-> SubSeq(stk, 2, Len(stk))]

\* stack[stack.length - 1]: the last cleanup is called and stays registered
PeekTop(stk) == [cleanup |-> stk[Len(stk)], rest |-> stk]

\* stack.pop(): the cleanup dispose() takes next, and what is left
PopTop(stk) == [cleanup |-> stk[Len(stk)], rest |-> SubSeq(stk, 1, Len(stk) - 1)]

\* pushCallback(callback) on a stack that is not disposed (on a disposed stack it
\* throws and changes nothing)
PushCallback(r) ==
    /\ ~disposed
    /\ r \notin RangeOf(registered) \cup entering
    /\ Len(registered) < MaxResources
    /\ stack' = Append(stack, r)
    /\ registered' = Append(registered, r)
    /\ UNCHANGED <<disposed, dpc, running, errors, cleanupLog, disposeOutcome,
                   disposeThrown, cleanupFailed, disposeCallLog, agentVars, extVars>>

\* enter(resource) on a stack that is not disposed (on a disposed stack it
\* throws): push the call of the resource's Symbol.asyncDispose
Enter(r) ==
    /\ ~disposed
    /\ r \notin RangeOf(registered) \cup entering
    /\ Len(registered) + Cardinality(entering) < MaxResources
    /\ stack' = Append(stack, r)
    /\ registered' = Append(registered, r)
    /\ UNCHANGED <<disposed, dpc, running, errors, cleanupLog, disposeOutcome,
                   disposeThrown, cleanupFailed, disposeCallLog, agentVars, extVars>>

\* enterContext(callback) on a stack that is not disposed (on a disposed stack it
\* throws): the callback is called and awaited
EnterContextCall(r) ==
    /\ ~disposed
    /\ r \notin RangeOf(registered) \cup entering
    /\ Len(registered) + Cardinality(entering) < MaxResources
    /\ entering' = entering \cup {r}
    /\ UNCHANGED <<stackVars, agentVars, subVars, initVars, earlierVars, summarizerVars>>

\* the callback of a pending enterContext() resolves with [resource, cleanup]:
\* the cleanup is pushed, without a second look at `disposed`
EnterContextResumes(r) ==
    /\ r \in entering
    /\ entering' = entering \ {r}
    /\ stack' = Append(stack, r)
    /\ registered' = Append(registered, r)
    /\ UNCHANGED <<disposed, dpc, running, errors, cleanupLog, disposeOutcome,
                   disposeThrown, cleanupFailed, disposeCallLog, agentVars, subVars,
                   initVars, earlierVars, summarizerVars>>

\* the callback of a pending enterContext() rejects: enterContext() rejects and
\* nothing is pushed
EnterContextCallbackThrows(r) ==
    /\ r \in entering
    /\ entering' = entering \ {r}
    /\ UNCHANGED <<stackVars, agentVars, subVars, initVars, earlierVars, summarizerVars>>

\* dispose() on a stack that is not disposed (on a disposed stack it returns at
\* once): mark it disposed and enter the loop
DisposeCall ==
    /\ ~disposed
    /\ dpc = "idle"
    /\ disposed' = TRUE
    /\ errors' = << >>
    /\ dpc' = "loop"
    /\ disposeCallLog' = Append(disposeCallLog, dpc)
    /\ UNCHANGED <<stack, running, cleanupLog, registered, disposeOutcome,
                   disposeThrown, cleanupFailed, agentVars, extVars>>

\* dispose() on a disposed stack, while the first call is still in its loop or
\* after it settled: `if (this.disposed) return;`
DisposeCallAgain ==
    /\ disposed
    /\ Len(disposeCallLog) < MaxDisposeCalls
    /\ disposeCallLog' = Append(disposeCallLog, dpc)
    /\ UNCHANGED <<stack, disposed, dpc, running, errors, cleanupLog, registered,
                   disposeOutcome, disposeThrown, cleanupFailed, agentVars, extVars>>

\* one iteration of the loop: pop the last registered cleanup and call it
DisposePop ==
    /\ dpc = "loop"
    /\ Len(stack) > 0
    /\ stack' = PopTop(stack).rest
    /\ running' = PopTop(stack).cleanup
    /\ cleanupLog' = Append(cleanupLog, PopTop(stack).cleanup)
    /\ dpc' = "awaiting"
    /\ UNCHANGED <<disposed, errors, registered, disposeOutcome,
                   disposeThrown, cleanupFailed, disposeCallLog, agentVars, extVars>>

\* what the catch block of the loop does with a cleanup that threw
AfterCleanupThrow(errs, r) == [errors |-> Append(errs, r), dpc |-> "loop"]

\* the awaited cleanup settles; when it threw, the error is collected and the
\* loop goes on
CleanupSettles(threw) ==
    /\ dpc = "awaiting"
    /\ IF threw
         THEN /\ errors' = AfterCleanupThrow(errors, running).errors
              /\ dpc' = AfterCleanupThrow(errors, running).dpc
         ELSE /\ errors' = errors
              /\ dpc' = "loop"
    /\ cleanupFailed' = IF threw THEN Append(cleanupFailed, running) ELSE cleanupFailed
    /\ running' = ""
    /\ UNCHANGED <<stack, disposed, cleanupLog, registered, disposeOutcome,
                   disposeThrown, disposeCallLog, agentVars, extVars>>

\* what dispose() settles with for the collected errors: nothing to throw, the
\* single error, or an AggregateError of all of them
DisposeResult(errs) ==
    IF Len(errs) = 0 THEN "resolved"
    ELSE IF Len(errs) = 1 THEN "rejected: single error"
    ELSE "rejected: AggregateError"

\* an error that carries only the first collected failure
DisposeThrownFirstOnly(errs) ==
    IF Len(errs) = 0 THEN << >> ELSE <<errs[1]>>

\* the failures carried by what dispose() throws: errors[0] itself when there is
\* one, the `errors` list of the AggregateError when there are several
DisposeThrown(errs) ==
    IF Len(errs) = 0 THEN << >>
    ELSE IF Len(errs) = 1 THEN <<errs[1]>>
    ELSE errs

\* the stack is empty: dispose() settles
DisposeSettles ==
    /\ dpc = "loop"
    /\ Len(stack) = 0
    /\ disposeOutcome' = DisposeResult(errors)
    /\ disposeThrown' = DisposeThrown(errors)
    /\ dpc' = "done"
    /\ UNCHANGED <<stack, disposed, running, errors, cleanupLog, registered,
                   cleanupFailed, disposeCallLog, agentVars, extVars>>

StackInit ==
    /\ maxTurns = 0
    /\ finishTool = "none"
    /\ hasSignal = FALSE
    /\ AgentIdle
    /\ StackIdle
    /\ ExtIdle

StackNext ==
    \/ \E r \in Resources : PushCallback(r)
    \/ DisposeCall
    \/ DisposeCallAgain
    \/ DisposePop
    \/ \E threw \in BOOLEAN : CleanupSettles(threw)
    \/ DisposeSettles

\* the stack as the agent's session uses it: initializeTool() registers with
\* pushCallback, Agent[Symbol.asyncDispose] calls dispose()
StackSpec == StackInit /\ [][StackNext]_vars

\* the stack with every public method: enter and enterContext as well
StackApiNext ==
    \/ StackNext
    \/ \E r \in Resources : Enter(r)
    \/ \E r \in Resources : EnterContextCall(r)
    \/ \E r \in Resources : EnterContextResumes(r)
    \/ \E r \in Resources : EnterContextCallbackThrows(r)

StackApiSpec == StackInit /\ [][StackApiNext]_vars

\* a cleanup sits on a stack whose dispose() has settled: enterContext() pushed it
\* after its callback outlived the disposal, and no dispose() call will invoke it
CleanupStranded == disposed /\ dpc = "done" /\ stack # << >>

(***************************************************************************)
(* Properties                                                              *)
(***************************************************************************)
EndsWith(q, tail) ==
    /\ Len(q) >= Len(tail)
    /\ SubSeq(q, Len(q) - Len(tail) + 1, Len(q)) = tail

Reverse(q) == [i \in 1..Len(q) |-> q[Len(q) + 1 - i]]

\* the dispatcher accepts the arguments of a call to the configured finish tool
IsValidFinishCall(toolCall) ==
    /\ finishTool # "none"
    /\ toolCall.name = FINISH_TOOL_NAME
    /\ ~ParseParams([name |-> FINISH_TOOL_NAME, parameters |-> finishTool], toolCall.arguments).threw

HasValidFinishCall(msg) ==
    \E i \in 1..Len(msg.toolCalls) : IsValidFinishCall(msg.toolCalls[i])

\* some invocation of the finish tool's handler completed successfully
FinishSucceeded ==
    \E i \in 1..Len(settlements) :
        settlements[i].name = FINISH_TOOL_NAME /\ ~settlements[i].threw

\* the last completed turn is the one of assistantMessage and toolMessages
TurnRecorded ==
    /\ genCalls >= 1
    /\ \/ pc \in {"turnTop", "summarizing", "finalize", "returned"}
       \/ pc = "generate" /\ genCalls >= 2

\* C1: once a turn's assistant message carried a call to the configured finish
\* tool whose arguments the dispatcher accepted, the run ends with that turn: it
\* goes to its return (no further turn, generate call or rejection), finishParams
\* is set, and every tool call of the message has its ToolMessage.
C1_FinishCallEndsRun ==
    (HasValidFinishCall(assistantMessage) /\ pc # "tools") =>
        /\ pc \in {"finalize", "returned"}
        /\ finishParams.defined
        /\ Len(toolMessages) = Len(assistantMessage.toolCalls)
        /\ (pc = "returned" => runOutcome.finishParams.defined)

\* C2: a run that returns without any successful finish call has performed
\* exactly maxTurns turns and returns finishParams unset.
C2_NoFinishRunsAllTurns ==
    (pc = "returned" /\ ~FinishSucceeded) =>
        /\ genCalls = maxTurns
        /\ turn = maxTurns
        /\ ~runOutcome.finishParams.defined

\* C3: the returned finishParams is present if and only if some finish call
\* with validated arguments was invoked and its handler completed successfully.
C3_FinishParamsIffFinishSucceeded ==
    pc = "returned" => (runOutcome.finishParams.defined <=> FinishSucceeded)

\* the ToolMessages of the last step answer its tool calls one to one, in list
\* order, by name and by call id as compared by IdMatches
AnswersInOrder(IdMatches(_, _)) ==
    /\ Len(toolMessages) = Len(assistantMessage.toolCalls)
    /\ \A i \in 1..Len(toolMessages) :
          /\ toolMessages[i].role = "tool"
          /\ toolMessages[i].name = assistantMessage.toolCalls[i].name
          /\ IdMatches(toolMessages[i], assistantMessage.toolCalls[i])

\* the assistant message of the last turn followed by its ToolMessages is the end
\* of the conversation group (the current one, or the one sealed by that turn's
\* finish or summarization), and of the list passed to
\* the next generate call when no summarization came between
TurnAppended ==
    LET tail == <<assistantMessage>> \o toolMessages IN
    /\ \/ EndsWith(currentGroup, tail)
       \/ \E g \in 1..Len(messageHistory) :
             g >= Len(messageHistory) - 1 /\ EndsWith(messageHistory[g], tail)
    /\ (pc = "generate" /\ ~NeedsSummarization(assistantMessage)) => EndsWith(currentMessages, tail)

SameId(tm, toolCall) == tm.toolCallId = toolCall.toolCallId

SameIdOrEmpty(tm, toolCall) ==
    \/ toolCall.toolCallId # NoToolCallId /\ tm.toolCallId = toolCall.toolCallId
    \/ toolCall.toolCallId = NoToolCallId /\ tm.toolCallId = ""

\* C4 (as stated): after every turn, before the next generate call or the return,
\* exactly one ToolMessage per tool call has been appended, in list order, the
\* i-th with the name and the toolCallId of the i-th call.
C4_OneToolMessagePerCall_SameId ==
    TurnRecorded => (AnswersInOrder(SameId) /\ TurnAppended)

\* C4 (amended): as above, the i-th ToolMessage carrying the i-th call's
\* toolCallId, or the empty string when the call has no id.
C4_OneToolMessagePerCall ==
    TurnRecorded => (AnswersInOrder(SameIdOrEmpty) /\ TurnAppended)

\* two tool calls answered in one turn, one of them without an id, and the next
\* generate call issued
C4_Witness ==
    /\ pc = "generate" /\ genCalls = 2
    /\ Len(assistantMessage.toolCalls) = 2
    /\ Len(toolMessages) = 2
    /\ assistantMessage.toolCalls[1].toolCallId = NoToolCallId
    /\ assistantMessage.toolCalls[2].toolCallId # NoToolCallId

\* C5: a handler that throws on validated arguments yields a ToolMessage with
\* argsWasValid = TRUE and the error text as body; the failure does not leave
\* runTool: the run is rejected only by an abort or a model-client error.
C5_HandlerFailureAbsorbed ==
    /\ pc = "tools" =>
         \A k \in 1..Len(settlements) :
            (settlements[k].turn = turn /\ settlements[k].threw) =>
               /\ Len(toolMessages) >= settlements[k].index
               /\ toolMessages[settlements[k].index].argsWasValid
               /\ toolMessages[settlements[k].index].name = settlements[k].name
               /\ toolMessages[settlements[k].index].content = "Error executing tool: boom"
    /\ pc = "rejected" => runOutcome.error \in {"abort", "client error"}

\* a handler threw in the first turn and the run went on to a second turn, where
\* a handler is running
C5_Witness ==
    /\ pc = "tools" /\ turn = 1 /\ inFlight # {}
    /\ \E k \in 1..Len(settlements) : settlements[k].turn = 0 /\ settlements[k].threw

IsUnknownCall(toolCall) == toolCall.name \notin DOMAIN activeTools

IsInvalidCall(toolCall) ==
    /\ toolCall.name \in DOMAIN activeTools
    /\ ParseParams(activeTools[toolCall.name], toolCall.arguments).threw

\* the executor was called for the i-th tool call of turn t
Invoked(t, i) ==
    \E k \in 1..Len(invocations) : invocations[k].turn = t /\ invocations[k].index = i

\* C6: a tool call whose name is not in the registry is answered with
\* argsWasValid = FALSE, no handler is invoked for it, and it does not end the
\* run: after a turn of unknown calls only, the run returns only because the
\* turns are exhausted, with finishParams unset.
C6_UnknownToolRejected ==
    /\ pc = "tools" =>
         \A i \in 1..Len(toolMessages) :
            IsUnknownCall(assistantMessage.toolCalls[i]) =>
               /\ ~toolMessages[i].argsWasValid
               /\ toolMessages[i].name = assistantMessage.toolCalls[i].name
               /\ ~Invoked(turn, i)
    /\ ( /\ pc \in {"finalize", "returned"}
         /\ Len(assistantMessage.toolCalls) > 0
         /\ \A i \in 1..Len(assistantMessage.toolCalls) :
               IsUnknownCall(assistantMessage.toolCalls[i]) )
       => (~finishParams.defined /\ turn = maxTurns)

\* a call named "finish" on an agent without finish tool was answered as unknown
\* and the run went on to the next turn
C6_Witness ==
    /\ finishTool = "none"
    /\ pc = "generate" /\ genCalls = 2
    /\ Len(toolMessages) = 2
    /\ assistantMessage.toolCalls[1].name = FINISH_TOOL_NAME
    /\ assistantMessage.toolCalls[2].name = "ghost"
    /\ ~toolMessages[1].argsWasValid

\* every ToolMessage of the conversation that reports invalid arguments of a
\* registered tool
InvalidArgsMessages ==
    LET groups == RangeOf(messageHistory) \cup {currentGroup, toolMessages} IN
    { m \in UNION { RangeOf(g) : g \in groups } :
        m.role = "tool" /\ ~m.argsWasValid /\ m.name \in DOMAIN activeTools }

\* C7: a call whose arguments fail decoding or validation is answered with
\* argsWasValid = FALSE without invoking the handler, and all such answers carry
\* one and the same fixed body, whatever the arguments and the validation error.
C7_InvalidArgsGenericBody ==
    /\ pc = "tools" =>
         \A i \in 1..Len(toolMessages) :
            IsInvalidCall(assistantMessage.toolCalls[i]) =>
               /\ ~toolMessages[i].argsWasValid
               /\ toolMessages[i].content = "Tool arguments are not valid"
               /\ ~Invoked(turn, i)
    /\ \A m1, m2 \in InvalidArgsMessages : m1.content = m2.content

\* malformed JSON for one tool and a schema violation for another, both answered
\* in one turn
C7_Witness ==
    /\ pc = "tools" /\ Len(toolMessages) = 2
    /\ assistantMessage.toolCalls[1].arguments = ArgsMalformed
    /\ assistantMessage.toolCalls[2].arguments = ArgsReasonNumber
    /\ IsInvalidCall(assistantMessage.toolCalls[1])
    /\ IsInvalidCall(assistantMessage.toolCalls[2])

\* C8: at most one handler invocation is pending at any time, no generate call
\* is pending while a handler is, and handlers are started in the order of the
\* turns and, within a turn, in the order the model listed the calls.
C8_OneHandlerAtATime ==
    /\ Cardinality(inFlight) <= 1
    /\ genInFlight # "none" => inFlight = {}
    /\ \A a, b \in 1..Len(invocations) :
          a < b => \/ invocations[a].turn < invocations[b].turn
                   \/ /\ invocations[a].turn = invocations[b].turn
                      /\ invocations[a].index < invocations[b].index
    /\ \A k \in 1..Len(invocations) :
          (k <= Len(settlements)) \/ (k = Len(invocations) /\ inFlight = {invocations[k].index})

\* the second handler of a turn is running after the first one has settled
C8_Witness ==
    /\ pc = "tools"
    /\ inFlight = {2}
    /\ Len(settlements) = 1 /\ settlements[1].turn = turn /\ settlements[1].index = 1

LastEvent == events[Len(events)]

\* C9: when the check after initialization or at the top of a turn finds the
\* signal aborted, the very next step of run() is its rejection with the abort
\* reason, announced by run:error, with no RunResult, and without any further
\* generate call or handler invocation; a rejected run takes no further step.
C9_AbortObservedRejects ==
    [][ /\ ( /\ hasSignal /\ aborted
             /\ (pc = "initialized" \/ (pc = "turnTop" /\ turn < maxTurns)) )
           => /\ pc' = "rejected"
              /\ runOutcome'.kind = "rejected"
              /\ runOutcome'.error = "abort"
              /\ ~runOutcome'.finishParams.defined
              /\ runOutcome'.messageHistory = << >>
              /\ events' = Append(events, Event("run:error", "abort", turn))
              /\ genCalls' = genCalls
              /\ invocations' = invocations
              /\ genInFlight' = "none" /\ inFlight' = {}
        /\ pc = "rejected" => FALSE ]_vars

\* a run rejected with the abort reason at the top of its second turn, after a
\* handler ran in the first
C9_Witness ==
    /\ pc = "rejected" /\ runOutcome.error = "abort"
    /\ genCalls = 1 /\ turn = 1
    /\ Len(invocations) >= 1
    /\ LastEvent.type = "run:error"

\* C10: disposal invokes the cleanups in the reverse of their registration
\* order, and goes on to the cleanups registered earlier when one fails: at any
\* moment of a disposal the cleanups invoked so far are the last registered
\* ones, last first, and when dispose() settles all of them have been invoked.
C10_DisposalLifoNotFailFast ==
    /\ disposed =>
          /\ Len(cleanupLog) <= Len(registered)
          /\ cleanupLog = SubSeq(Reverse(registered), 1, Len(cleanupLog))
    /\ dpc = "done" => cleanupLog = Reverse(registered)

\* A, B, C registered in that order; C, B, A invoked, B's cleanup having thrown
C10_Witness ==
    /\ dpc = "done"
    /\ registered = <<"A", "B", "C">>
    /\ cleanupLog = <<"C", "B", "A">>
    /\ errors = <<"B">>

(***************************************************************************)
(* Sub-agent bridge: Agent.toTool, and run() as seen by the bridge          *)
(*                                                                         *)
(* The agent of level l+1 is a tool of the agent of level l.  Every agent  *)
(* has one tool provider (a CodeExecToolProvider when codeExec[l]) with one *)
(* tool; a run makes tool calls and then returns.  No agent was given an   *)
(* output directory through session().                                     *)
(***************************************************************************)
\* what a run returns as finishParams: undefined, an object with paths: [], or an
\* object with paths: ['out.txt']
FinishOutcomes == {"undefined", "no paths", "paths"}

\* getParentDepth(): parentDepthContext.get() ?? 0
getParentDepth(store) == IF store = NoStore THEN 0 ELSE store

\* sessionContext.get()?.execEnv: whether an execution environment is found
SessionExecEnv(store) == IF store = NoStore THEN FALSE ELSE agents[store].execEnv

Top == frames[Len(frames)]

SetTop(f) == [frames EXCEPT ![Len(frames)] = f]

RunFrame(l, depth) ==
    [kind |-> "run", level |-> l, pc |-> "start", depth |-> depth,
     parentExecEnv |-> FALSE, outer |-> NoStore, finish |-> "undefined"]

ExecutorFrame(l, depth, parentExecEnv) ==
    [kind |-> "executor", level |-> l, pc |-> "initialize", depth |-> depth,
     parentExecEnv |-> parentExecEnv, outer |-> NoStore, finish |-> "undefined"]

Log(kind, l, depth, info) == [kind |-> kind, level |-> l, depth |-> depth, info |-> info]

\* where initialize() returns to: run() goes on to its turn loop, the executor of
\* the sub-agent tool to the upload of the input files
AfterInitialize(kind) == IF kind = "run" THEN "loop" ELSE "upload"

\* the caller runs the root agent: run(task), depth defaulting to 0
CallRootRun ==
    /\ frames = << >>
    /\ subLog = << >>
    /\ frames' = <<RunFrame(0, 0)>>
    /\ UNCHANGED <<customSystemPrompt, codeExec, agents, providers, sessionStore,
                   parentDepthStore, toolCallsMade, subLog, agentVars, stackVars, initVars, sessVars>>

\* top of run(): emit run:start with the depth argument, initialize if needed
AgentRunStart ==
    /\ frames # << >>
    /\ Top.kind = "run"
    /\ Top.pc = "start"
    /\ subLog' = Append(subLog, Log("run:start", Top.level, Top.depth, ""))
    /\ frames' = SetTop([Top EXCEPT !.pc =
                     IF agents[Top.level].isInitialized THEN "loop" ELSE "initialize"])
    /\ UNCHANGED <<customSystemPrompt, codeExec, agents, providers, sessionStore,
                   parentDepthStore, toolCallsMade, agentVars, stackVars, initVars, sessVars>>

\* initialize(depth) on an initialized agent: `if (this.isInitialized) return;`
InitializeSkip ==
    /\ frames # << >>
    /\ Top.pc = "initialize"
    /\ agents[Top.level].isInitialized
    /\ frames' = SetTop([Top EXCEPT !.pc = AfterInitialize(Top.kind)])
    /\ UNCHANGED <<customSystemPrompt, codeExec, agents, providers, sessionStore,
                   parentDepthStore, toolCallsMade, subLog, agentVars, stackVars, initVars, sessVars>>

\* initialize(depth): create the session state and, inside
\* sessionContext.runAsync(state, ...), initialize the provider: getTools(),
\* register its tools, push its dispose hook, keep it as execEnv when it is a
\* code-execution provider
InitializeEnter ==
    /\ frames # << >>
    /\ Top.pc = "initialize"
    /\ ~agents[Top.level].isInitialized
    /\ agents' = [agents EXCEPT ![Top.level] =
                     [@ EXCEPT !.depth = Top.depth,
                               !.exitStack = <<Top.level>>,
                               !.stackDisposed = FALSE,
                               !.execEnv = codeExec[Top.level],
                               !.toolsRegistered = TRUE]]
    /\ providers' = [providers EXCEPT ![Top.level] = "ready"]
    /\ subLog' = Append(subLog, Log("getTools", Top.level, Top.depth, ""))
    /\ sessionStore' = Top.level
    /\ frames' = SetTop([Top EXCEPT !.pc = "initializing", !.outer = sessionStore])
    /\ UNCHANGED <<customSystemPrompt, codeExec, parentDepthStore, toolCallsMade,
                   agentVars, stackVars, initVars, sessVars>>

\* the callback of runAsync returns: the store of the caller is current again,
\* and initialize() sets isInitialized
InitializeExit ==
    /\ frames # << >>
    /\ Top.pc = "initializing"
    /\ sessionStore' = Top.outer
    /\ agents' = [agents EXCEPT ![Top.level] = [@ EXCEPT !.isInitialized = TRUE]]
    /\ frames' = SetTop([Top EXCEPT !.pc = AfterInitialize(Top.kind)])
    /\ UNCHANGED <<customSystemPrompt, codeExec, providers, parentDepthStore,
                   toolCallsMade, subLog, agentVars, stackVars, initVars, sessVars>>

\* a turn of the run calls the tool of the agent's provider: its handler runs
CallProviderTool ==
    /\ frames # << >>
    /\ Top.kind = "run"
    /\ Top.pc = "loop"
    /\ agents[Top.level].toolsRegistered
    /\ toolCallsMade < MaxToolCalls
    /\ toolCallsMade' = toolCallsMade + 1
    /\ subLog' = Append(subLog, Log("handler", Top.level, Top.depth, providers[Top.level]))
    /\ UNCHANGED <<customSystemPrompt, codeExec, agents, providers, frames, sessionStore,
                   parentDepthStore, agentVars, stackVars, initVars, sessVars>>

\* a turn of the run calls the sub-agent tool: the executor of toTool() reads the
\* ambient parent depth and session, and picks the agent to run (a new Agent when
\* a customSystemPrompt was given, otherwise the agent object itself)
CallSubAgentTool ==
    /\ frames # << >>
    /\ Top.kind = "run"
    /\ Top.pc = "loop"
    /\ Top.level < MaxNesting
    /\ toolCallsMade < MaxToolCalls
    /\ toolCallsMade' = toolCallsMade + 1
    /\ LET parentDepth == getParentDepth(parentDepthStore)
           subAgentDepth == parentDepth + 1
           parentExecEnv == SessionExecEnv(sessionStore)
       IN  frames' = Append(frames, ExecutorFrame(Top.level + 1, subAgentDepth, parentExecEnv))
    /\ agents' = IF customSystemPrompt[Top.level + 1]
                   THEN [agents EXCEPT ![Top.level + 1] = FreshAgent]
                   ELSE agents
    /\ UNCHANGED <<customSystemPrompt, codeExec, providers, sessionStore,
                   parentDepthStore, subLog, agentVars, stackVars, initVars, sessVars>>

\* executor: upload the input files into the child's environment when there are
\* some and both environments exist, then call subAgent.run(task, subAgentDepth)
ExecutorRun(inputFiles) ==
    /\ frames # << >>
    /\ Top.kind = "executor"
    /\ Top.pc = "upload"
    /\ subLog' = IF inputFiles /\ agents[Top.level].execEnv /\ Top.parentExecEnv
                   THEN Append(subLog, Log("uploadFiles", Top.level, Top.depth, "from parent"))
                   ELSE subLog
    /\ frames' = Append(SetTop([Top EXCEPT !.pc = "awaitRun"]), RunFrame(Top.level, Top.depth))
    /\ UNCHANGED <<customSystemPrompt, codeExec, agents, providers, sessionStore,
                   parentDepthStore, toolCallsMade, agentVars, stackVars, initVars, sessVars>>

\* run() returns its result: lastFinishParams is kept, and the awaiting executor
\* (if the run is a sub-agent's) goes on with the result
RunReturn(fp) ==
    /\ frames # << >>
    /\ Top.kind = "run"
    /\ Top.pc = "loop"
    /\ agents' = [agents EXCEPT ![Top.level] = [@ EXCEPT !.lastFinishParams = fp]]
    /\ frames' = IF Len(frames) = 1
                   THEN << >>
                   ELSE [SubSeq(frames, 1, Len(frames) - 1) EXCEPT ![Len(frames) - 1] =
                            [@ EXCEPT !.pc = "transfer", !.finish = fp]]
    /\ UNCHANGED <<customSystemPrompt, codeExec, providers, sessionStore,
                   parentDepthStore, toolCallsMade, subLog, agentVars, stackVars, initVars, sessVars>>

\* executor: when the result has finishParams.paths with entries and both
\* environments exist, save the output files into the parent's environment
ExecutorTransfer ==
    /\ frames # << >>
    /\ Top.kind = "executor"
    /\ Top.pc = "transfer"
    /\ subLog' = IF Top.finish = "paths" /\ agents[Top.level].execEnv /\ Top.parentExecEnv
                   THEN Append(subLog, Log("saveOutputFiles", Top.level, Top.depth, "to parent"))
                   ELSE subLog
    /\ frames' = SetTop([Top EXCEPT !.pc = "dispose"])
    /\ UNCHANGED <<customSystemPrompt, codeExec, agents, providers, sessionStore,
                   parentDepthStore, toolCallsMade, agentVars, stackVars, initVars, sessVars>>

\* Agent[Symbol.asyncDispose]() of the agent of level l: nothing to save without
\* an output directory; exitStack.dispose() calls the provider's dispose hook
\* unless the stack is already disposed
AgentDispose(l) ==
    /\ agents' = [agents EXCEPT ![l] = [@ EXCEPT !.exitStack = << >>, !.stackDisposed = TRUE]]
    /\ IF agents[l].stackDisposed \/ agents[l].exitStack = << >>
         THEN /\ providers' = providers
              /\ subLog' = subLog
         ELSE /\ providers' = [providers EXCEPT ![PopTop(agents[l].exitStack).cleanup] = "disposed"]
              /\ subLog' = Append(subLog, Log("dispose", l, agents[l].depth, ""))

\* executor: dispose the sub-agent and return the tool result to the parent run
ExecutorDispose ==
    /\ frames # << >>
    /\ Top.kind = "executor"
    /\ Top.pc = "dispose"
    /\ AgentDispose(Top.level)
    /\ frames' = SubSeq(frames, 1, Len(frames) - 1)
    /\ UNCHANGED <<customSystemPrompt, codeExec, sessionStore, parentDepthStore,
                   toolCallsMade, agentVars, stackVars, initVars, sessVars>>

\* the caller disposes the root agent after its run
RootDispose ==
    /\ frames = << >>
    /\ agents[0].isInitialized
    /\ ~agents[0].stackDisposed
    /\ AgentDispose(0)
    /\ UNCHANGED <<customSystemPrompt, codeExec, frames, sessionStore, parentDepthStore,
                   toolCallsMade, agentVars, stackVars, initVars, sessVars>>

SubAgentInit ==
    /\ maxTurns = 0
    /\ finishTool = "none"
    /\ hasSignal = FALSE
    /\ AgentIdle
    /\ StackIdle
    /\ customSystemPrompt \in [SubLevels -> BOOLEAN]
    /\ codeExec \in [Levels -> BOOLEAN]
    /\ agents = [l \in Levels |-> FreshAgent]
    /\ providers = [l \in Levels |-> "new"]
    /\ frames = << >>
    /\ sessionStore = NoStore
    /\ parentDepthStore = NoStore
    /\ toolCallsMade = 0
    /\ subLog = << >>
    /\ InitIdle
    /\ SessIdle

SubAgentNext ==
    \/ CallRootRun
    \/ AgentRunStart
    \/ InitializeSkip
    \/ InitializeEnter
    \/ InitializeExit
    \/ CallProviderTool
    \/ CallSubAgentTool
    \/ \E inputFiles \in BOOLEAN : ExecutorRun(inputFiles)
    \/ \E fp \in FinishOutcomes : RunReturn(fp)
    \/ ExecutorTransfer
    \/ ExecutorDispose
    \/ RootDispose

SubAgentSpec == SubAgentInit /\ [][SubAgentNext]_vars

(***************************************************************************)
(* C11-C12: AsyncDisposableStack.dispose, failures and repeated calls       *)
(***************************************************************************)
NoDuplicates(q) == \A i, j \in 1..Len(q) : q[i] = q[j] => i = j

DisposeRejected == disposeOutcome \in {"rejected: single error", "rejected: AggregateError"}

\* C11: the dispose() call that runs the cleanups rejects if and only if at least
\* one cleanup threw; it settles only after every registered cleanup has been
\* called and has settled; the error it throws carries every failure, in the
\* order in which they happened (a failure neither is dropped nor stops the loop).
C11_DisposeReportsAllFailures ==
    /\ disposeOutcome # "pending" =>
          /\ dpc = "done"
          /\ running = ""
          /\ RangeOf(cleanupLog) = RangeOf(registered)
          /\ DisposeRejected <=> cleanupFailed # << >>
          /\ disposeThrown = cleanupFailed
    /\ dpc = "done" => disposeOutcome # "pending"

\* three cleanups registered, the last and the first registered throw: dispose()
\* rejects with an AggregateError that carries both, after all three were called
C11_Witness ==
    /\ dpc = "done"
    /\ registered = <<"A", "B", "C">>
    /\ cleanupLog = <<"C", "B", "A">>
    /\ cleanupFailed = <<"C", "A">>
    /\ disposeOutcome = "rejected: AggregateError"
    /\ disposeThrown = <<"C", "A">>

\* C12: whatever the number of dispose() calls, one after the other or while an
\* earlier call is still running, every registered cleanup is invoked at most
\* once, none before dispose() was first called, and once the disposing call has
\* settled each of them has been invoked exactly once.
C12_CleanupExactlyOnce ==
    /\ NoDuplicates(cleanupLog)
    /\ RangeOf(cleanupLog) \subseteq RangeOf(registered)
    /\ cleanupLog # << >> => disposeCallLog # << >>
    /\ dpc = "done" =>
          \A r \in RangeOf(registered) :
              Cardinality({i \in 1..Len(cleanupLog) : cleanupLog[i] = r}) = 1

\* dispose() called a second time while the first call awaited a cleanup; all
\* three cleanups were invoked once
C12_Witness ==
    /\ dpc = "done"
    /\ Len(registered) = 3
    /\ Len(disposeCallLog) = 2
    /\ disposeCallLog[2] = "awaiting"
    /\ Len(cleanupLog) = 3

(***************************************************************************)
(* C13-C15: the sub-agent bridge                                           *)
(***************************************************************************)
LogEntries(kind) == {i \in 1..Len(subLog) : subLog[i].kind = kind}

\* C13: every tool handler a sub-agent invokes, in its first and in every later
\* invocation, belongs to a provider that was initialized by getTools() for the
\* session and whose dispose hook has not been invoked since.
C13_SubAgentHandlersLive ==
    \A i \in LogEntries("handler") :
        subLog[i].level \in SubLevels => subLog[i].info = "ready"

\* C14: a root run has depth 0 and the agent nested n levels below the root runs
\* with depth n, in its run:start event and in its session state.
C14_DepthIsNestingLevel ==
    /\ \A i \in LogEntries("run:start") : subLog[i].depth = subLog[i].level
    /\ \A l \in Levels : agents[l].depth \in {NoSession, l}

\* C15: when the sub-agent's run returned finishParams with a non-empty paths
\* list and both the parent and the child have an execution environment, the
\* files have been saved into the parent's environment by the time the disposal
\* of the child session begins.
C15_OutputFilesTransferredBeforeDispose ==
    (/\ frames # << >>
     /\ Top.kind = "executor"
     /\ Top.pc = "dispose"
     /\ Top.finish = "paths"
     /\ agents[Top.level].execEnv
     /\ agents[Top.level - 1].execEnv)
    => /\ subLog # << >>
       /\ subLog[Len(subLog)] = Log("saveOutputFiles", Top.level, Top.depth, "to parent")

(***************************************************************************)
(* C16-C18: context summarization                                          *)
(***************************************************************************)
\* (input + output) / ClientMaxTokens >= 0.7 for a reported usage
UsageMeetsCutoff(u) ==
    /\ u.reported
    /\ (u.input + u.output) * 10 >= CutoffTenths * ClientMaxTokens

EventIndices(type) == {i \in 1..Len(events) : events[i].type = type}

\* C16: after the response of a turn that does not finish the run, if the usage
\* of that response (input + output) over the context budget meets or exceeds the
\* cutoff, summarization:start is emitted right after the turn's turn:complete and
\* the summarization is done before the primary generate call of the next turn is
\* issued; if the usage is below the cutoff (or not reported) the turn has no
\* summarization.
C16_SummarizationTrigger ==
    /\ pc = "summarizing" =>
          /\ UsageMeetsCutoff(assistantMessage.tokenUsage)
          /\ LastEvent = Event("summarization:start", "", turn)
          /\ genCalls = turn + 1
    /\ (pc = "turnTop" /\ turn >= 1) =>
          /\ genCalls = turn
          /\ IF UsageMeetsCutoff(assistantMessage.tokenUsage)
               THEN /\ LastEvent = Event("summarization:complete", "", turn - 1)
                    /\ \E i \in EventIndices("summarization:start") :
                          /\ events[i].turn = turn - 1
                          /\ \A j \in EventIndices("turn:start") : j < i
               ELSE \A i \in EventIndices("summarization:start") : events[i].turn # turn - 1
    /\ \A i \in EventIndices("summarization:start") :
          /\ i > 1
          /\ events[i - 1] = Event("turn:complete", "", events[i].turn)
          /\ \A j \in EventIndices("turn:start") : j < i <=> events[j].turn <= events[i].turn

\* the first turn reported a usage at the cutoff and was summarized before the
\* generate call of the second turn; the second turn reported a usage below the
\* cutoff and had no summarization
C16_Witness ==
    /\ pc = "turnTop"
    /\ turn = 2
    /\ genCalls = 2
    /\ Len(runMetadata["token_usage"]) = 2
    /\ runMetadata["token_usage"][1].input + runMetadata["token_usage"][1].output = 700
    /\ runMetadata["token_usage"][2].input + runMetadata["token_usage"][2].output = 699
    /\ {events[i].turn : i \in EventIndices("summarization:start")} = {0}

\* position of the first assistant message of a list (0 when there is none)
FirstAssistantPosition(messages) ==
    IF \E i \in 1..Len(messages) : messages[i].role = "assistant"
      THEN CHOOSE i \in 1..Len(messages) :
               /\ messages[i].role = "assistant"
               /\ \A j \in 1..(i - 1) : messages[j].role # "assistant"
      ELSE 0

IsBridge(m) == \E summary \in Summaries : m = BridgeMessage(summary)

JustSummarized == pc = "turnTop" /\ events # << >> /\ LastEvent.type = "summarization:complete"

\* C17: when a summarization has replaced the active list `old`, whose first
\* assistant message sits at index k >= 1 (0-based), the new active list is the
\* first k messages of `old` unchanged followed by exactly one user bridge
\* message: its length is k + 1 and no message of `old` from index k onward is in it.
C17_SummarizationKeepsTaskContext ==
    JustSummarized =>
        LET old == messageHistory[Len(messageHistory)]
            k == FirstAssistantPosition(old) - 1
        IN  /\ k >= 1
            /\ Len(currentMessages) = k + 1
            /\ SubSeq(currentMessages, 1, k) = SubSeq(old, 1, k)
            /\ currentMessages[k + 1].role = "user"
            /\ IsBridge(currentMessages[k + 1])
            /\ \A i \in (k + 1)..Len(old) : old[i] \notin RangeOf(currentMessages)
            /\ currentGroup = currentMessages

\* a list of system, user, assistant and one tool message was summarized into
\* system, user and the bridge message
C17_Witness ==
    /\ JustSummarized
    /\ Len(messageHistory[Len(messageHistory)]) = 4
    /\ messageHistory[Len(messageHistory)][4].role = "tool"
    /\ Len(currentMessages) = 3

\* C18: when run() returns, messageHistory has one group per summarization done
\* during the run plus one final group; each group after the first begins with
\* the task context of the group sealed before it followed by the bridge message.
\* In particular a run with maxTurns = 1 that finishes at once has one group.
C18_HistoryGroupsPerSummarization ==
    pc = "returned" =>
        /\ Len(messageHistory) = Cardinality(EventIndices("summarization:complete")) + 1
        /\ runOutcome.messageHistory = messageHistory
        /\ \A g \in 1..(Len(messageHistory) - 1) :
              LET k == FirstAssistantPosition(messageHistory[g]) - 1 IN
              /\ Len(messageHistory[g + 1]) >= k + 1
              /\ SubSeq(messageHistory[g + 1], 1, k) = SubSeq(messageHistory[g], 1, k)
              /\ IsBridge(messageHistory[g + 1][k + 1])
        /\ (maxTurns = 1 /\ finishParams.defined) => Len(messageHistory) = 1

\* a run of two turns returned without finish parameters after one summarization:
\* the sealed first group and the final group
C18_Witness ==
    /\ pc = "returned"
    /\ ~finishParams.defined
    /\ Cardinality(EventIndices("summarization:complete")) = 1
    /\ Len(messageHistory) = 2
    /\ Len(messageHistory[2]) >= 4

(***************************************************************************)
(* Agent.initialize, step by step, inside the first run()                  *)
(*                                                                         *)
(* The model client of this specification rejects every generate call, so  *)
(* a run that initializes goes on to its first turn and no further.        *)
(***************************************************************************)
\* this.isCodeExecProvider(tool)
IsCodeExecProvider(t) == t.kind = "codeExec"

\* this.isToolProvider(tool)
IsToolProvider(t) == t.kind \in {"provider", "codeExec"}

\* this.tools.filter(t => this.isCodeExecProvider(t)), as the positions in the list
CodeExecProviders(ts) == {i \in 1..Len(ts) : IsCodeExecProvider(ts[i])}

\* a check that accepts any number of code-execution providers
TooManyCodeExecProvidersNever(ts) == FALSE

\* `codeExecProviders.length > 1`
TooManyCodeExecProviders(ts) == Cardinality(CodeExecProviders(ts)) > 1

\* a second pass that initializes every entry of the list
SkippedInSecondPassNever(t) == FALSE

\* the second pass over this.tools leaves out the code-execution providers
SkippedInSecondPass(t) == IsCodeExecProvider(t)

InitStep(step, name) == [step |-> step, tool |-> name]

\* this.activeTools.set(t.name, t) for the tool an entry registers
SetTool(reg, t) ==
    [n \in DOMAIN reg \cup {t.provides} |->
        IF n = t.provides THEN [name |-> t.provides, parameters |-> t.parameters] ELSE reg[n]]

\* initializeTool(t) when getTools() succeeds: a provider has its tools registered
\* and its dispose hook pushed on the exit stack, a plain tool is registered
InitializeToolOk(t) ==
    /\ activeTools' = SetTool(activeTools, t)
    /\ initLog' = Append(initLog, InitStep(IF IsToolProvider(t) THEN "getTools" ELSE "setTool", t.name))
    /\ stack' = IF IsToolProvider(t) THEN Append(stack, t.name) ELSE stack
    /\ registered' = IF IsToolProvider(t) THEN Append(registered, t.name) ELSE registered

\* the entry initialize() is about to initialize, if any
CurrentEntry ==
    IF ipc = "codeExec" /\ CodeExecProviders(tools) # {}
      THEN <<tools[CHOOSE i \in CodeExecProviders(tools) : TRUE]>>
    ELSE IF ipc = "tools" /\ toolCursor <= Len(tools) /\ ~SkippedInSecondPass(tools[toolCursor])
      THEN <<tools[toolCursor]>>
    ELSE << >>

\* more than one code-execution provider: initialize() throws before anything else
InitializeRejectCodeExec ==
    /\ pc = "initialize"
    /\ ipc = "idle"
    /\ TooManyCodeExecProviders(tools)
    /\ Reject("Agent can only have one CodeExecToolProvider")
    /\ ipc' = "failed"
    /\ UNCHANGED <<maxTurns, finishTool, hasSignal, aborted, isInitialized, activeTools,
                   lastFinishParams, turn, currentMessages, currentGroup, messageHistory,
                   runMetadata, finishParams, assistantMessage, idx, toolMessages,
                   inFlight, genInFlight, genCalls, invocations, scriptCalls, settlements,
                   stackVars, subVars, sessVars, tools, sessionConfig, pendingInputFiles,
                   pendingSkillsDir, toolCursor, execEnv, initLog>>

\* at most one code-execution provider: go on to the first pass
InitializeBegin ==
    /\ pc = "initialize"
    /\ ipc = "idle"
    /\ ~TooManyCodeExecProviders(tools)
    /\ ipc' = "codeExec"
    /\ UNCHANGED <<agentVars, stackVars, subVars, sessVars, tools, sessionConfig, pendingInputFiles,
                   pendingSkillsDir, toolCursor, execEnv, initLog>>

\* first pass: initialize the code-execution provider, if there is one, and keep
\* it as the execution environment of the session
InitializeCodeExec ==
    /\ pc = "initialize"
    /\ ipc = "codeExec"
    /\ IF CurrentEntry = << >>
         THEN UNCHANGED <<activeTools, initLog, stack, registered, execEnv>>
         ELSE /\ InitializeToolOk(CurrentEntry[1])
              /\ execEnv' = CurrentEntry[1].name
    /\ ipc' = "inputFiles"
    /\ UNCHANGED <<maxTurns, finishTool, hasSignal, aborted, isInitialized,
                   lastFinishParams, pc, turn, currentMessages, currentGroup, messageHistory,
                   runMetadata, finishParams, runOutcome, assistantMessage, idx, toolMessages,
                   inFlight, genInFlight, events, genCalls, invocations, scriptCalls,
                   settlements, disposed, dpc, running, errors, cleanupLog, disposeOutcome,
                   disposeThrown, cleanupFailed, disposeCallLog, subVars, sessVars, tools,
                   sessionConfig, pendingInputFiles, pendingSkillsDir, toolCursor>>

\* getTools() of the provider being initialized rejects: the error leaves
\* initialize() and run()
InitializeToolThrows ==
    /\ pc = "initialize"
    /\ CurrentEntry # << >>
    /\ IsToolProvider(CurrentEntry[1])
    /\ initLog' = Append(initLog, InitStep("getTools", CurrentEntry[1].name))
    /\ Reject("getTools failed")
    /\ ipc' = "failed"
    /\ UNCHANGED <<maxTurns, finishTool, hasSignal, aborted, isInitialized, activeTools,
                   lastFinishParams, turn, currentMessages, currentGroup, messageHistory,
                   runMetadata, finishParams, assistantMessage, idx, toolMessages,
                   inFlight, genInFlight, genCalls, invocations, scriptCalls, settlements,
                   stackVars, subVars, sessVars, tools, sessionConfig, pendingInputFiles,
                   pendingSkillsDir, toolCursor, execEnv>>

\* upload the input files, if configured: needs the execution environment
InitializeInputFiles ==
    /\ pc = "initialize"
    /\ ipc = "inputFiles"
    /\ IF ~pendingInputFiles
         THEN /\ ipc' = "skills"
              /\ UNCHANGED <<events, runOutcome, pc, initLog, pendingInputFiles>>
         ELSE IF execEnv = ""
           THEN /\ Reject("inputFiles requires a CodeExecToolProvider to be configured")
                /\ ipc' = "failed"
                /\ UNCHANGED <<initLog, pendingInputFiles>>
           ELSE /\ initLog' = Append(initLog, InitStep("uploadInputFiles", execEnv))
                /\ pendingInputFiles' = FALSE
                /\ ipc' = "skills"
                /\ UNCHANGED <<events, runOutcome, pc>>
    /\ UNCHANGED <<maxTurns, finishTool, hasSignal, aborted, isInitialized, activeTools,
                   lastFinishParams, turn, currentMessages, currentGroup, messageHistory,
                   runMetadata, finishParams, assistantMessage, idx, toolMessages,
                   inFlight, genInFlight, genCalls, invocations, scriptCalls, settlements,
                   stackVars, subVars, sessVars, tools, sessionConfig, pendingSkillsDir, toolCursor,
                   execEnv>>

\* load the skills metadata and upload the skills directory, if configured: needs
\* the execution environment
InitializeSkills ==
    /\ pc = "initialize"
    /\ ipc = "skills"
    /\ IF ~pendingSkillsDir
         THEN /\ ipc' = "tools"
              /\ UNCHANGED <<events, runOutcome, pc, initLog, pendingSkillsDir>>
         ELSE IF execEnv = ""
           THEN /\ Reject("skillsDir requires a CodeExecToolProvider to be configured")
                /\ ipc' = "failed"
                /\ UNCHANGED <<initLog, pendingSkillsDir>>
           ELSE /\ initLog' = initLog \o <<InitStep("loadSkillsMetadata", ""),
                                          InitStep("uploadSkills", execEnv)>>
                /\ pendingSkillsDir' = FALSE
                /\ ipc' = "tools"
                /\ UNCHANGED <<events, runOutcome, pc>>
    /\ toolCursor' = 1
    /\ UNCHANGED <<maxTurns, finishTool, hasSignal, aborted, isInitialized, activeTools,
                   lastFinishParams, turn, currentMessages, currentGroup, messageHistory,
                   runMetadata, finishParams, assistantMessage, idx, toolMessages,
                   inFlight, genInFlight, genCalls, invocations, scriptCalls, settlements,
                   stackVars, subVars, sessVars, tools, sessionConfig, pendingInputFiles, execEnv>>

\* second pass, one entry of this.tools: initialize it unless it is a
\* code-execution provider
InitializeTool ==
    /\ pc = "initialize"
    /\ ipc = "tools"
    /\ toolCursor <= Len(tools)
    /\ IF CurrentEntry = << >>
         THEN UNCHANGED <<activeTools, initLog, stack, registered>>
         ELSE InitializeToolOk(CurrentEntry[1])
    /\ toolCursor' = toolCursor + 1
    /\ UNCHANGED <<maxTurns, finishTool, hasSignal, aborted, isInitialized,
                   lastFinishParams, pc, turn, currentMessages, currentGroup, messageHistory,
                   runMetadata, finishParams, runOutcome, assistantMessage, idx, toolMessages,
                   inFlight, genInFlight, events, genCalls, invocations, scriptCalls,
                   settlements, disposed, dpc, running, errors, cleanupLog, disposeOutcome,
                   disposeThrown, cleanupFailed, disposeCallLog, subVars, sessVars, tools,
                   sessionConfig, pendingInputFiles, pendingSkillsDir, ipc, execEnv>>

\* after the second pass: register the finish tool, if any, under
\* FINISH_TOOL_NAME; initialize() returns and sets isInitialized
InitializeFinish ==
    /\ pc = "initialize"
    /\ ipc = "tools"
    /\ toolCursor > Len(tools)
    /\ IF finishTool # "none"
         THEN /\ activeTools' = SetTool(activeTools,
                     [name |-> "finishTool", kind |-> "tool", provides |-> FINISH_TOOL_NAME,
                      parameters |-> finishTool])
              /\ initLog' = Append(initLog, InitStep("setFinishTool", FINISH_TOOL_NAME))
         ELSE UNCHANGED <<activeTools, initLog>>
    /\ isInitialized' = TRUE
    /\ ipc' = "done"
    /\ pc' = "initialized"
    /\ UNCHANGED <<maxTurns, finishTool, hasSignal, aborted,
                   lastFinishParams, turn, currentMessages, currentGroup, messageHistory,
                   runMetadata, finishParams, runOutcome, assistantMessage, idx, toolMessages,
                   inFlight, genInFlight, events, genCalls, invocations, scriptCalls,
                   settlements, stackVars, subVars, sessVars, tools, sessionConfig, pendingInputFiles,
                   pendingSkillsDir, toolCursor, execEnv>>

\* an agent built with some tools list, session() called with some configuration
InitializeInit ==
    /\ maxTurns \in 0..1
    /\ finishTool \in {"none", "schema"}
    /\ hasSignal = FALSE
    /\ AgentIdle
    /\ StackIdle
    /\ SubIdle
    /\ tools \in {q \in SeqsUpTo(ToolEntries, MaxTools) : NoDuplicates(q)}
    /\ sessionConfig \in [inputFiles : BOOLEAN, skillsDir : BOOLEAN]
    /\ pendingInputFiles = sessionConfig.inputFiles
    /\ pendingSkillsDir = sessionConfig.skillsDir
    /\ ipc = "idle"
    /\ toolCursor = 1
    /\ execEnv = ""
    /\ initLog = << >>
    /\ SessIdle

InitializeNext ==
    \/ RunStart
    \/ InitializeRejectCodeExec
    \/ InitializeBegin
    \/ InitializeCodeExec
    \/ InitializeToolThrows
    \/ InitializeInputFiles
    \/ InitializeSkills
    \/ InitializeTool
    \/ InitializeFinish
    \/ Setup
    \/ TurnStart
    \/ TurnsExhausted
    \/ GenerateThrow
    \/ Finalize

InitializeSpec == InitializeInit /\ [][InitializeNext]_vars

(***************************************************************************)
(* C19-C20: session initialization                                         *)
(***************************************************************************)
InitSteps(step) == {i \in 1..Len(initLog) : initLog[i].step = step}

NumberOfCodeExecEntries == Cardinality({i \in 1..Len(tools) : tools[i].kind = "codeExec"})

\* C19: when the configured tools list has more than one code-execution
\* provider, the first run() rejects with the configuration error before any
\* provider's getTools() is called, before any turn:start event and before any
\* generate call: it never gets further than the check.
C19_TwoCodeExecProvidersRejected ==
    NumberOfCodeExecEntries > 1 =>
        /\ initLog = << >>
        /\ activeTools = [n \in {} |-> [name |-> "", parameters |-> "null"]]
        /\ EventIndices("turn:start") = {}
        /\ genCalls = 0
        /\ ~isInitialized
        /\ pc \in {"idle", "initialize", "rejected"}
        /\ pc = "initialize" => ipc = "idle"
        /\ pc = "rejected" =>
              /\ runOutcome.kind = "rejected"
              /\ runOutcome.error = "Agent can only have one CodeExecToolProvider"
              /\ events = <<Event("run:start", "", 0),
                            Event("run:error", "Agent can only have one CodeExecToolProvider", 0)>>

\* two code-execution providers around a tool provider: run() was rejected and
\* nothing was initialized
C19_Witness ==
    /\ tools = <<CodeExecA, ProviderP, CodeExecB>>
    /\ pc = "rejected"
    /\ runOutcome.error = "Agent can only have one CodeExecToolProvider"
    /\ initLog = << >>

\* position of the entry called `name` in the configured list (0 when absent)
ToolPosition(name) ==
    IF \E i \in 1..Len(tools) : tools[i].name = name
      THEN CHOOSE i \in 1..Len(tools) : tools[i].name = name
      ELSE 0

KindOf(name) == IF ToolPosition(name) = 0 THEN "" ELSE tools[ToolPosition(name)].kind

\* the phase of initialization a step belongs to: 1 the code-execution provider,
\* 2 the input files, 3 the skills, 4 the remaining tools and providers, 5 the
\* finish tool
Phase(e) ==
    CASE e.step = "getTools" /\ KindOf(e.tool) = "codeExec" -> 1
      [] e.step = "uploadInputFiles" -> 2
      [] e.step \in {"loadSkillsMetadata", "uploadSkills"} -> 3
      [] e.step = "setFinishTool" -> 5
      [] OTHER -> 4

\* C20: whatever the order of the configured list, the steps of initialization
\* come in the order: the code-execution provider (if any), the upload of the
\* input files, the upload of the skills, every remaining tool and provider in
\* list order, and the registration of the finish tool after all of them; when
\* initialize() has returned every configured step has been done once.
C20_InitializationOrder ==
    /\ \A i, j \in 1..Len(initLog) : i < j => Phase(initLog[i]) <= Phase(initLog[j])
    /\ \A i, j \in 1..Len(initLog) :
          (i < j /\ Phase(initLog[i]) = 4 /\ Phase(initLog[j]) = 4)
              => ToolPosition(initLog[i].tool) < ToolPosition(initLog[j].tool)
    /\ ipc = "done" =>
          /\ \A k \in 1..Len(tools) :
                Cardinality({i \in 1..Len(initLog) :
                                /\ initLog[i].tool = tools[k].name
                                /\ initLog[i].step \in {"getTools", "setTool"}}) = 1
          /\ Cardinality(InitSteps("uploadInputFiles")) = IF sessionConfig.inputFiles THEN 1 ELSE 0
          /\ Cardinality(InitSteps("uploadSkills")) = IF sessionConfig.skillsDir THEN 1 ELSE 0
          /\ finishTool # "none" =>
                /\ initLog[Len(initLog)] = InitStep("setFinishTool", FINISH_TOOL_NAME)
                /\ activeTools[FINISH_TOOL_NAME] =
                       [name |-> FINISH_TOOL_NAME, parameters |-> finishTool]
          /\ finishTool = "none" => InitSteps("setFinishTool") = {}

\* the code-execution provider is the last entry of the list, behind a tool
\* provider and a plain tool named like the finish tool; input files, skills and
\* a finish tool are configured
C20_Witness ==
    /\ ipc = "done"
    /\ tools = <<ProviderP, ToolNamedFinish, CodeExecA>>
    /\ finishTool = "schema"
    /\ initLog = << InitStep("getTools", "codeExecA"),
                    InitStep("uploadInputFiles", "codeExecA"),
                    InitStep("loadSkillsMetadata", ""),
                    InitStep("uploadSkills", "codeExecA"),
                    InitStep("getTools", "providerP"),
                    InitStep("setTool", FINISH_TOOL_NAME),
                    InitStep("setFinishTool", FINISH_TOOL_NAME) >>
    /\ activeTools[FINISH_TOOL_NAME].parameters = "schema"
    /\ stack = <<"codeExecA", "providerP">>

(***************************************************************************)
(* Several run()/runStream() calls on one agent                            *)
(*                                                                         *)
(* The caller makes up to MaxRunCalls calls on one Agent object without    *)
(* waiting for the earlier ones; every `await` of initialize() is a point  *)
(* where another call may start or go on.  The agent has maxTurns = 0, so  *)
(* the body of a call after initialization returns at once, and session()  *)
(* configured neither input files nor skills.                              *)
(***************************************************************************)
\* the entries of this.tools in the order initialize() visits them: the first
\* pass over the code-execution providers, then the second pass over the rest
InitializeOrder(ts) ==
    SelectSeq(ts, IsCodeExecProvider) \o SelectSeq(ts, LAMBDA t : ~SkippedInSecondPass(t))

RunCallKinds == {"run", "runStream"}

RunCall(kind, callPc, step) == [kind |-> kind, pc |-> callPc, step |-> step]

\* initialize() reaches position k of its order and runs up to the next await:
\* `await this.initializeTool(tool)` calls getTools() of a provider, or registers
\* a plain tool; behind the last entry the finish tool is registered and the
\* callback of runAsync returns
BeginPc(k) ==
    LET ord == InitializeOrder(tools) IN
    IF k > Len(ord) THEN "awaitRunAsync"
    ELSE IF IsToolProvider(ord[k]) THEN "getTools" ELSE "settled"

BeginTools(reg, k) ==
    LET ord == InitializeOrder(tools) IN
    IF k > Len(ord)
      THEN IF finishTool # "none"
             THEN SetTool(reg, [name |-> "finishTool", kind |-> "tool",
                                provides |-> FINISH_TOOL_NAME, parameters |-> finishTool])
             ELSE reg
    ELSE IF IsToolProvider(ord[k]) THEN reg ELSE SetTool(reg, ord[k])

BeginLog(log, k) ==
    LET ord == InitializeOrder(tools) IN
    IF k > Len(ord)
      THEN IF finishTool # "none"
             THEN Append(log, InitStep("setFinishTool", FINISH_TOOL_NAME))
             ELSE log
    ELSE Append(log, InitStep(IF IsToolProvider(ord[k]) THEN "getTools" ELSE "setTool", ord[k].name))

\* the caller calls run() or pulls a runStream() generator past its start event:
\* run() emits run:start; `if (!this.isInitialized) await this.initialize(depth)`;
\* initialize() creates a new session state and begins with its first entry
CallRun(kind) ==
    /\ Len(runCalls) < MaxRunCalls
    /\ events' = IF kind = "run" THEN Append(events, Event("run:start", "", 0)) ELSE events
    /\ IF isInitialized
         THEN /\ runCalls' = Append(runCalls, RunCall(kind, "loop", 0))
              /\ UNCHANGED <<activeTools, initLog, stack, registered, execEnv>>
         ELSE /\ runCalls' = Append(runCalls, RunCall(kind, BeginPc(1), 1))
              /\ activeTools' = BeginTools(activeTools, 1)
              /\ initLog' = BeginLog(initLog, 1)
              /\ stack' = << >>
              /\ registered' = << >>
              /\ execEnv' = ""
    /\ UNCHANGED <<maxTurns, finishTool, hasSignal, aborted, isInitialized,
                   lastFinishParams, pc, turn, currentMessages, currentGroup, messageHistory,
                   runMetadata, finishParams, runOutcome, assistantMessage, idx, toolMessages,
                   inFlight, genInFlight, genCalls, invocations, scriptCalls, settlements,
                   disposed, dpc, running, errors, cleanupLog, disposeOutcome,
                   disposeThrown, cleanupFailed, disposeCallLog, subVars, nonCallVars, tools,
                   sessionConfig, pendingInputFiles, pendingSkillsDir, ipc, toolCursor>>

\* the call whose initialize() created the session state that is this.sessionState
\* now: the last call that entered initialize() (a call that found the agent
\* initialized has step 0)
CurrentStateOwner ==
    LET owners == {c \in 1..Len(runCalls) : runCalls[c].step >= 1} IN
    IF owners = {} THEN 0 ELSE CHOOSE c \in owners : \A d \in owners : d <= c

\* getTools() of the provider call c waits for resolves: its tool is registered
\* and its dispose hook is pushed on the exit stack of the current session state
\* (this.sessionState); initializeTool() returns
GetToolsReturn(c) ==
    /\ c \in 1..Len(runCalls)
    /\ runCalls[c].pc = "getTools"
    /\ LET t == InitializeOrder(tools)[runCalls[c].step] IN
         /\ activeTools' = SetTool(activeTools, t)
         /\ stack' = Append(stack, t.name)
         /\ registered' = Append(registered, t.name)
    /\ runCalls' = [runCalls EXCEPT ![c] = [@ EXCEPT !.pc = "settled"]]
    /\ UNCHANGED <<maxTurns, finishTool, hasSignal, aborted, isInitialized,
                   lastFinishParams, pc, turn, currentMessages, currentGroup, messageHistory,
                   runMetadata, finishParams, runOutcome, assistantMessage, idx, toolMessages,
                   inFlight, genInFlight, events, genCalls, invocations, scriptCalls, settlements,
                   disposed, dpc, running, errors, cleanupLog, disposeOutcome,
                   disposeThrown, cleanupFailed, disposeCallLog, subVars, nonCallVars, tools,
                   sessionConfig, pendingInputFiles, pendingSkillsDir, ipc, toolCursor, execEnv,
                   initLog>>

\* getTools() of the provider call c waits for rejects: the error leaves
\* initialize() and the call, isInitialized stays false
GetToolsThrows(c) ==
    /\ c \in 1..Len(runCalls)
    /\ runCalls[c].pc = "getTools"
    /\ runCalls' = [runCalls EXCEPT ![c] = [@ EXCEPT !.pc = "rejected"]]
    /\ events' = IF runCalls[c].kind = "run"
                   THEN Append(events, Event("run:error", "getTools failed", 0))
                   ELSE events
    /\ UNCHANGED <<maxTurns, finishTool, hasSignal, aborted, isInitialized, activeTools,
                   lastFinishParams, pc, turn, currentMessages, currentGroup, messageHistory,
                   runMetadata, finishParams, runOutcome, assistantMessage, idx, toolMessages,
                   inFlight, genInFlight, genCalls, invocations, scriptCalls, settlements,
                   stackVars, subVars, nonCallVars, initVars>>

\* `await this.initializeTool(tool)` of call c resumes: in the first pass the
\* code-execution provider becomes the execution environment of the session
\* state of call c's own initialize() (the local `state`), which is the current
\* one only if no later call replaced it; initialize() goes on with its next entry
InitializeResume(c) ==
    /\ c \in 1..Len(runCalls)
    /\ runCalls[c].pc = "settled"
    /\ LET t == InitializeOrder(tools)[runCalls[c].step] IN
         execEnv' = IF IsCodeExecProvider(t) /\ c = CurrentStateOwner
                      THEN t.name ELSE execEnv
    /\ LET k == runCalls[c].step + 1 IN
         /\ runCalls' = [runCalls EXCEPT ![c] = RunCall(@.kind, BeginPc(k), k)]
         /\ activeTools' = BeginTools(activeTools, k)
         /\ initLog' = BeginLog(initLog, k)
    /\ UNCHANGED <<maxTurns, finishTool, hasSignal, aborted, isInitialized,
                   lastFinishParams, pc, turn, currentMessages, currentGroup, messageHistory,
                   runMetadata, finishParams, runOutcome, assistantMessage, idx, toolMessages,
                   inFlight, genInFlight, events, genCalls, invocations, scriptCalls, settlements,
                   stackVars, subVars, nonCallVars, tools, sessionConfig, pendingInputFiles,
                   pendingSkillsDir, ipc, toolCursor>>

\* `await sessionContext.runAsync(...)` of call c resumes: `this.isInitialized =
\* true`, and the call goes on behind its initialization
InitializeReturn(c) ==
    /\ c \in 1..Len(runCalls)
    /\ runCalls[c].pc = "awaitRunAsync"
    /\ isInitialized' = TRUE
    /\ runCalls' = [runCalls EXCEPT ![c] = [@ EXCEPT !.pc = "loop"]]
    /\ UNCHANGED <<maxTurns, finishTool, hasSignal, aborted, activeTools,
                   lastFinishParams, pc, turn, currentMessages, currentGroup, messageHistory,
                   runMetadata, finishParams, runOutcome, assistantMessage, idx, toolMessages,
                   inFlight, genInFlight, events, genCalls, invocations, scriptCalls, settlements,
                   stackVars, subVars, nonCallVars, initVars>>

\* the body of call c behind the initialization: no turn with maxTurns = 0, the
\* result is returned and run() emits run:complete
RunCallReturns(c) ==
    /\ c \in 1..Len(runCalls)
    /\ runCalls[c].pc = "loop"
    /\ runCalls' = [runCalls EXCEPT ![c] = [@ EXCEPT !.pc = "returned"]]
    /\ events' = IF runCalls[c].kind = "run"
                   THEN Append(events, Event("run:complete", "", 0))
                   ELSE events
    /\ UNCHANGED <<maxTurns, finishTool, hasSignal, aborted, isInitialized, activeTools,
                   lastFinishParams, pc, turn, currentMessages, currentGroup, messageHistory,
                   runMetadata, finishParams, runOutcome, assistantMessage, idx, toolMessages,
                   inFlight, genInFlight, genCalls, invocations, scriptCalls, settlements,
                   stackVars, subVars, nonCallVars, initVars>>

\* an agent built with some tools list holding at most one code-execution
\* provider, no call made yet
SessionInit ==
    /\ maxTurns = 0
    /\ finishTool \in {"none", "schema"}
    /\ hasSignal = FALSE
    /\ AgentIdle
    /\ StackIdle
    /\ SubIdle
    /\ tools \in {q \in SeqsUpTo(ToolEntries, MaxTools) :
                     NoDuplicates(q) /\ ~TooManyCodeExecProviders(q)}
    /\ sessionConfig = [inputFiles |-> FALSE, skillsDir |-> FALSE]
    /\ pendingInputFiles = FALSE
    /\ pendingSkillsDir = FALSE
    /\ ipc = "idle"
    /\ toolCursor = 1
    /\ execEnv = ""
    /\ initLog = << >>
    /\ SessIdle

SessionNext ==
    \/ \E kind \in RunCallKinds : CallRun(kind)
    \/ \E c \in 1..Len(runCalls) : GetToolsReturn(c)
    \/ \E c \in 1..Len(runCalls) : GetToolsThrows(c)
    \/ \E c \in 1..Len(runCalls) : InitializeResume(c)
    \/ \E c \in 1..Len(runCalls) : InitializeReturn(c)
    \/ \E c \in 1..Len(runCalls) : RunCallReturns(c)

SessionSpec == SessionInit /\ [][SessionNext]_vars

(***************************************************************************)
(* C21: getTools() once per session                                        *)
(***************************************************************************)
GetToolsCalls(name) ==
    Cardinality({i \in 1..Len(initLog) : initLog[i] = InitStep("getTools", name)})

\* C21: whatever run()/runStream() calls are made on the agent, and however
\* they overlap, getTools() of each configured tool provider is called at most
\* once, and exactly once when a call has got past its initialization.
C21_GetToolsOncePerSession ==
    \A k \in 1..Len(tools) :
        IsToolProvider(tools[k]) =>
            /\ GetToolsCalls(tools[k].name) <= 1
            /\ (\E c \in 1..Len(runCalls) : runCalls[c].pc \in {"loop", "returned"})
                  => GetToolsCalls(tools[k].name) = 1

(***************************************************************************)
(* C22: the assistant message is announced before its tool calls run       *)
(***************************************************************************)
AssistantEventBefore(j, t) ==
    \E i \in 1..(j - 1) : events[i] = Event("message:assistant", "", t)

\* C22: every tool:start event is preceded by the message:assistant event of the
\* same turn, and whenever a handler has been invoked for a tool call of a turn,
\* the message:assistant event of that turn has already been emitted; this holds
\* also for an assistant message that has tool calls and no text.
C22_AssistantEventBeforeToolStart ==
    /\ \A j \in EventIndices("tool:start") : AssistantEventBefore(j, events[j].turn)
    /\ \A k \in 1..Len(invocations) :
          AssistantEventBefore(Len(events) + 1, invocations[k].turn)

\* second turn: the assistant message has no text and one valid call of toolA,
\* whose handler has just been invoked
C22_Witness ==
    /\ pc = "tools"
    /\ turn = 1
    /\ assistantMessage.content = ""
    /\ Len(assistantMessage.toolCalls) = 1
    /\ inFlight = {1}
    /\ invocations[Len(invocations)].turn = 1
    /\ events[Len(events)] = Event("tool:start", "toolA", 1)
    /\ events[Len(events) - 1] = Event("message:assistant", "", 1)

(***************************************************************************)
(* Event subscribers that throw                                            *)
(*                                                                         *)
(* EventEmitter.emit calls the listeners synchronously, so an exception of *)
(* a listener is thrown by the `this.emit(...)` statement.  The caller has *)
(* subscribed listeners that throw to some of the tool events; the other   *)
(* events have no throwing listener.                                       *)
(***************************************************************************)
ToolEventTypes == {"tool:start", "tool:complete", "tool:error"}

\* this.emit(type, ...) returns: no listener of the type throws
EmitReturns(type) == type \notin throwingSubscribers

SubscriberError == "subscriber failed"

\* the catch block of run() after further events were emitted: emit run:error and
\* rethrow
RejectAfter(emitted, err) ==
    /\ events' = events \o emitted \o <<Event("run:error", err, turn)>>
    /\ runOutcome' = [PendingOutcome EXCEPT !.kind = "rejected", !.error = err]
    /\ pc' = "rejected"

\* runTool, arguments invalid, and a tool:error listener throws inside the catch
\* block of the validation: the exception leaves runTool, step() and run()
RunToolInvalidSubscriberThrows ==
    /\ pc = "tools"
    /\ idx <= Len(assistantMessage.toolCalls)
    /\ MayStartNext(inFlight)
    /\ ~EmitReturns("tool:error")
    /\ LET toolCall == assistantMessage.toolCalls[idx] IN
         /\ toolCall.name \in DOMAIN activeTools
         /\ ParseParams(activeTools[toolCall.name], toolCall.arguments).threw
         /\ RejectAfter(<<Event("tool:error", toolCall.name, turn)>>, SubscriberError)
    /\ UNCHANGED <<maxTurns, finishTool, hasSignal, aborted, isInitialized, activeTools,
                   lastFinishParams, turn, currentMessages, currentGroup, messageHistory,
                   runMetadata, finishParams, assistantMessage, idx, toolMessages,
                   inFlight, genInFlight, genCalls, invocations, scriptCalls, settlements,
                   stackVars, extVars>>

\* runTool, arguments valid, and a tool:start listener throws: the executor is
\* not called and the exception leaves runTool, step() and run()
RunToolInvokeSubscriberThrows ==
    /\ pc = "tools"
    /\ idx <= Len(assistantMessage.toolCalls)
    /\ MayStartNext(inFlight)
    /\ ~EmitReturns("tool:start")
    /\ LET toolCall == assistantMessage.toolCalls[idx] IN
         /\ toolCall.name \in DOMAIN activeTools
         /\ ~ParseParams(activeTools[toolCall.name], toolCall.arguments).threw
         /\ RejectAfter(<<Event("tool:start", toolCall.name, turn)>>, SubscriberError)
    /\ UNCHANGED <<maxTurns, finishTool, hasSignal, aborted, isInitialized, activeTools,
                   lastFinishParams, turn, currentMessages, currentGroup, messageHistory,
                   runMetadata, finishParams, assistantMessage, idx, toolMessages,
                   inFlight, genInFlight, genCalls, invocations, scriptCalls, settlements,
                   stackVars, extVars>>

\* a pending executor call settles and a listener of the event emitted for it
\* throws.  The executor returned: `this.emit('tool:complete', ...)` is inside the
\* try block of the executor call, so its exception is handled by the catch
\* block as a failure of the executor: tool:error is emitted, the error
\* ToolMessage is returned and the metadata of the result is not recorded.  An
\* exception of a tool:error listener is thrown inside the catch block and
\* leaves runTool, step() and run().
ExecutorSettlesSubscriberThrows(i, outcome) ==
    /\ pc = "tools"
    /\ i \in inFlight
    /\ IF outcome.threw THEN ~EmitReturns("tool:error") ELSE ~EmitReturns("tool:complete")
    /\ inFlight' = inFlight \ {i}
    /\ settlements' = Append(settlements,
           [turn |-> turn, index |-> i, name |-> assistantMessage.toolCalls[i].name,
            threw |-> outcome.threw, metadata |-> outcome.metadata])
    /\ LET toolCall == assistantMessage.toolCalls[i] IN
         IF outcome.threw
           THEN /\ RejectAfter(<<Event("tool:error", toolCall.name, turn)>>, SubscriberError)
                /\ UNCHANGED toolMessages
           ELSE IF EmitReturns("tool:error")
             THEN /\ events' = events \o <<Event("tool:complete", toolCall.name, turn),
                                           Event("tool:error", toolCall.name, turn)>>
                  /\ toolMessages' = Append(toolMessages, ExecutorErrorMessage(toolCall, SubscriberError))
                  /\ UNCHANGED <<runOutcome, pc>>
             ELSE /\ RejectAfter(<<Event("tool:complete", toolCall.name, turn),
                                   Event("tool:error", toolCall.name, turn)>>, SubscriberError)
                  /\ UNCHANGED toolMessages
    /\ UNCHANGED <<maxTurns, finishTool, hasSignal, aborted, isInitialized, activeTools,
                   lastFinishParams, turn, currentMessages, currentGroup, messageHistory,
                   runMetadata, finishParams, assistantMessage, idx,
                   genInFlight, genCalls, invocations, scriptCalls, stackVars, extVars>>

\* an agent with a finish tool and toolA, run without a signal; the caller has
\* subscribed throwing listeners to some set of the tool events
SubscriberInit ==
    /\ maxTurns \in 1..MaxTurns
    /\ finishTool = "schema"
    /\ hasSignal = FALSE
    /\ AgentIdle
    /\ StackIdle
    /\ SubIdle
    /\ InitIdle
    /\ runCalls = << >>
    /\ throwingSubscribers \in SUBSET ToolEventTypes
    /\ child = ChildIdle(0)
    /\ LateIdle

SubscriberNext ==
    \/ RunStart
    \/ Initialize
    \/ Setup
    \/ TurnStart
    \/ TurnsExhausted
    \/ \E resp \in Responses(MaxScriptCalls - scriptCalls) : GenerateReturn(resp)
    \/ GenerateThrow
    \/ RunToolUnknown
    \/ EmitReturns("tool:error") /\ RunToolInvalid
    \/ RunToolInvalidSubscriberThrows
    \/ EmitReturns("tool:start") /\ RunToolInvoke
    \/ RunToolInvokeSubscriberThrows
    \/ \E i \in inFlight : \E outcome \in HandlerOutcomes :
          /\ EmitReturns(IF outcome.threw THEN "tool:error" ELSE "tool:complete")
          /\ ExecutorSettles(i, outcome)
    \/ \E i \in inFlight : \E outcome \in HandlerOutcomes : ExecutorSettlesSubscriberThrows(i, outcome)
    \/ TurnEndFinish
    \/ TurnEndContinue
    \/ TurnEndSummarize
    \/ \E summary \in Summaries : SummarizeReturn(summary)
    \/ SummarizeThrow
    \/ Finalize

SubscriberSpec == SubscriberInit /\ [][SubscriberNext]_vars

(***************************************************************************)
(* C23: subscriber exceptions and the data of the run                      *)
(***************************************************************************)
SucceededHandlers(name) ==
    {k \in 1..Len(settlements) : settlements[k].name = name /\ ~settlements[k].threw}

\* C23: while the run has not been rejected, every tool call of the current turn
\* whose handler returned has the ToolMessage of a success (the content the
\* handler returned, argsWasValid true), and the metadata accumulator of each
\* tool holds one value per handler call that returned, whatever the event
\* subscribers do.
C23_SubscriberFailureNotAbsorbed ==
    pc # "rejected" =>
        /\ \A k \in 1..Len(settlements) :
              (settlements[k].turn = turn /\ ~settlements[k].threw /\ pc \in {"tools", "finalize", "summarizing"})
                  => /\ settlements[k].index <= Len(toolMessages)
                     /\ toolMessages[settlements[k].index] =
                            ExecutorResultMessage(assistantMessage.toolCalls[settlements[k].index],
                                                  "tool result")
        /\ \A name \in DOMAIN runMetadata \ {"token_usage"} :
              Len(runMetadata[name]) = Cardinality(SucceededHandlers(name))

(***************************************************************************)
(* C24: tool events come in pairs                                          *)
(***************************************************************************)
\* C24: the tool events of a run pair up.  Tool calls run one at a time, so the
\* pairs do not interleave: a tool:start event is the last event while its call
\* is pending and is otherwise followed at once by the tool:complete or
\* tool:error event of the same tool and turn, and every tool:complete or
\* tool:error event comes right after the tool:start event of the same tool and
\* turn.
C24_ToolEventsPaired ==
    /\ \A j \in EventIndices("tool:start") :
          IF j = Len(events)
            THEN inFlight # {}
            ELSE /\ events[j + 1].type \in {"tool:complete", "tool:error"}
                 /\ events[j + 1].name = events[j].name
                 /\ events[j + 1].turn = events[j].turn
    /\ \A j \in EventIndices("tool:complete") \cup EventIndices("tool:error") :
          /\ j > 1
          /\ events[j - 1] = Event("tool:start", events[j].name, events[j].turn)

(***************************************************************************)
(* The model client rejects with a ContextOverflowError                    *)
(*                                                                         *)
(* The model clients throw ContextOverflowError when the provider reports  *)
(* that the prompt exceeds the context window; either generate call of a   *)
(* run may reject with it.                                                 *)
(***************************************************************************)
ContextOverflowError == "ContextOverflowError: Context window exceeded"

\* the primary generate call rejects with a ContextOverflowError: step() has no
\* handler around client.generate, the error reaches the catch block of run()
GenerateThrowOverflow ==
    /\ pc = "generate"
    /\ genInFlight = "primary"
    /\ genInFlight' = "none"
    /\ Reject(ContextOverflowError)
    /\ UNCHANGED <<maxTurns, finishTool, hasSignal, aborted, isInitialized, activeTools,
                   lastFinishParams, turn, currentMessages, currentGroup, messageHistory,
                   runMetadata, finishParams, assistantMessage, idx, toolMessages,
                   inFlight, genCalls, invocations, scriptCalls, settlements, stackVars, extVars>>

\* the summarization generate call rejects with a ContextOverflowError: the error
\* leaves summarizeMessages() and reaches the catch block of run()
SummarizeThrowOverflow ==
    /\ pc = "summarizing"
    /\ genInFlight = "summary"
    /\ genInFlight' = "none"
    /\ Reject(ContextOverflowError)
    /\ UNCHANGED <<maxTurns, finishTool, hasSignal, aborted, isInitialized, activeTools,
                   lastFinishParams, turn, currentMessages, currentGroup, messageHistory,
                   runMetadata, finishParams, assistantMessage, idx, toolMessages,
                   inFlight, genCalls, invocations, scriptCalls, settlements, stackVars, extVars>>

\* an agent with a finish tool and toolA, run without a signal
OverflowInit ==
    /\ maxTurns \in 1..MaxTurns
    /\ finishTool = "schema"
    /\ hasSignal = FALSE
    /\ AgentIdle
    /\ StackIdle
    /\ ExtIdle

OverflowNext ==
    \/ RunStart
    \/ Initialize
    \/ Setup
    \/ TurnStart
    \/ TurnsExhausted
    \/ \E resp \in Responses(MaxScriptCalls - scriptCalls) : GenerateReturn(resp)
    \/ GenerateThrow
    \/ GenerateThrowOverflow
    \/ RunToolUnknown
    \/ RunToolInvalid
    \/ RunToolInvoke
    \/ \E i \in inFlight : \E outcome \in HandlerOutcomes : ExecutorSettles(i, outcome)
    \/ TurnEndFinish
    \/ TurnEndContinue
    \/ TurnEndSummarize
    \/ \E summary \in Summaries : SummarizeReturn(summary)
    \/ SummarizeThrow
    \/ SummarizeThrowOverflow
    \/ Finalize

OverflowSpec == OverflowInit /\ [][OverflowNext]_vars

(***************************************************************************)
(* C25: context overflow of the two generate calls                         *)
(***************************************************************************)
\* C25: a run is rejected with a ContextOverflowError only when the
\* summarization generate call raised it (the run:error event then follows the
\* summarization:start event); a ContextOverflowError of the primary generate
\* call is handled inside the run and is never what run() rejects with.
C25_PrimaryOverflowCaught ==
    (pc = "rejected" /\ runOutcome.error = ContextOverflowError)
        => /\ Len(events) >= 2
           /\ events[Len(events)] = Event("run:error", ContextOverflowError, turn)
           /\ events[Len(events) - 1] = Event("summarization:start", "", turn)

(***************************************************************************)
(* A sub-agent run inside the executor of the sub-agent tool               *)
(*                                                                         *)
(* The parent agent is configured with tools: [child.toTool()] and a       *)
(* finish tool; child is another Agent with a finish tool and one tool     *)
(* provider, whose tools the child's script never calls.  toTool() is      *)
(* called without a custom system prompt, so the executor works on the     *)
(* child agent itself.  The parent's run is the run of the sections above; *)
(* while the executor of the tool "child" is pending, it initializes the   *)
(* child, the child's run() goes through its turns, one turn per step of   *)
(* the model, and the executor disposes the child's session.  The child's  *)
(* model reports usages below the cutoff.  The parent has no execution     *)
(* environment, so the executor transfers no file.                         *)
(***************************************************************************)
SubAgentToolName == "child"

ChildSystemMessage == Msg("system", "sub-agent system prompt")

\* the registry of the parent after initialize(): the sub-agent tool, then the
\* finish tool
BridgeActiveTools(ft) ==
    [n \in {SubAgentToolName, FINISH_TOOL_NAME} |->
        IF n = FINISH_TOOL_NAME
          THEN [name |-> FINISH_TOOL_NAME, parameters |-> ft]
          ELSE [name |-> SubAgentToolName, parameters |-> "subAgent"]]

\* the tool calls the parent's script may emit
BridgeScriptCalls ==
    { [name |-> SubAgentToolName, arguments |-> ArgsTask,       toolCallId |-> "call_s1"],
      [name |-> SubAgentToolName, arguments |-> ArgsMalformed,  toolCallId |-> NoToolCallId],
      [name |-> FINISH_TOOL_NAME, arguments |-> ArgsReasonDone, toolCallId |-> "call_f1"] }

\* assistant messages the parent's script may answer with
BridgeResponses(budget) ==
    { [role |-> "assistant", content |-> "text", toolCalls |-> r[1], tokenUsage |-> r[2],
       toolCallId |-> "", name |-> "", argsWasValid |-> TRUE] :
        r \in UNION { {<<cs, u>> : u \in UsagesFor(cs)} :
                      cs \in { q \in SeqsUpTo(BridgeScriptCalls, budget) :
                                  \A a, b \in 1..Len(q) : q[a] = q[b] => a = b } } }

\* assistant messages the child's script may answer with: text, a valid finish
\* call, a finish call with invalid arguments
ChildResponses ==
    { [role |-> "assistant", content |-> "child text", toolCalls |-> cs, tokenUsage |-> u,
       toolCallId |-> "", name |-> "", argsWasValid |-> TRUE] :
        <<cs, u>> \in { <<NoCalls, UsageBelowCutoff>>,
                        << <<[name |-> FINISH_TOOL_NAME, arguments |-> ArgsReasonDone,
                              toolCallId |-> "call_c1"]>>, NoUsage >>,
                        << <<[name |-> FINISH_TOOL_NAME, arguments |-> ArgsReasonNumber,
                              toolCallId |-> NoToolCallId]>>, NoUsage >> } }

\* initialize() of the parent completes: the sub-agent tool and the finish tool
\* are registered
BridgeInitialize ==
    /\ pc = "initialize"
    /\ activeTools' = BridgeActiveTools(finishTool)
    /\ isInitialized' = TRUE
    /\ pc' = "initialized"
    /\ UNCHANGED <<maxTurns, finishTool, hasSignal, aborted,
                   lastFinishParams, turn, currentMessages, currentGroup, messageHistory,
                   runMetadata, finishParams, runOutcome, assistantMessage, idx, toolMessages,
                   inFlight, genInFlight, events, genCalls, invocations, scriptCalls, settlements,
                   stackVars, extVars>>

\* the index of the pending call of the sub-agent tool, if any
PendingSubAgentCalls ==
    {i \in inFlight : assistantMessage.toolCalls[i].name = SubAgentToolName}

\* the executor of the sub-agent tool is invoked and awaits
\* subAgent.initialize(): it returns at once when the child is initialized, and
\* otherwise installs a new session state and calls getTools() of the child's
\* provider
SubAgentInitialize ==
    /\ pc = "tools"
    /\ PendingSubAgentCalls # {}
    /\ child.pc = "idle"
    /\ child' = IF child.isInitialized
                  THEN [child EXCEPT !.pc = "initialized", !.caught = NoError,
                                     !.result = PendingOutcome]
                  ELSE [child EXCEPT !.pc = "getTools", !.stackDisposed = FALSE,
                                     !.caught = NoError, !.result = PendingOutcome]
    /\ UNCHANGED <<agentVars, stackVars, subVars, initVars, nonBridgeVars>>

\* getTools() of the child's provider resolves: initializeTool pushes the
\* provider's dispose hook on the exit stack of the child's session state, the
\* finish tool is registered and initialize() sets isInitialized
SubAgentGetToolsReturn ==
    /\ child.pc = "getTools"
    /\ child' = [child EXCEPT !.pc = "initialized", !.isInitialized = TRUE]
    /\ UNCHANGED <<agentVars, stackVars, subVars, initVars, nonBridgeVars>>

\* getTools() of the child's provider rejects: initialize() rejects and the
\* catch block of the executor takes the error
SubAgentGetToolsThrows ==
    /\ child.pc = "getTools"
    /\ child' = [child EXCEPT !.pc = "settled", !.caught = "provider failed"]
    /\ UNCHANGED <<agentVars, stackVars, subVars, initVars, nonBridgeVars>>

\* subAgent.run(params.task, depth) finds the child initialized and builds its
\* message list and accumulator
SubAgentRunSetup ==
    /\ pc = "tools"
    /\ PendingSubAgentCalls # {}
    /\ child.pc = "initialized"
    /\ child' = [child EXCEPT
                    !.pc = "turnTop",
                    !.turn = 0,
                    !.currentMessages = <<ChildSystemMessage, UserMessage("sub task")>>,
                    !.currentGroup = <<ChildSystemMessage, UserMessage("sub task")>>,
                    !.messageHistory = << >>,
                    !.runMetadata = [k \in {"token_usage", FINISH_TOOL_NAME} |-> << >>],
                    !.finishParams = Undefined,
                    !.result = PendingOutcome]
    /\ UNCHANGED <<agentVars, stackVars, subVars, initVars, nonBridgeVars>>

\* the ToolMessages of a turn of the child: a finish call with invalid arguments
\* is answered by the validation message, a valid one by what its handler
\* settled with
ChildToolMessages(resp, outcome) ==
    [i \in 1..Len(resp.toolCalls) |->
        LET p == SchemaParse(resp.toolCalls[i].arguments) IN
        IF p.threw THEN InvalidArgsMessage(resp.toolCalls[i], p.detail)
        ELSE IF outcome.threw THEN ExecutorErrorMessage(resp.toolCalls[i], outcome.content)
        ELSE ExecutorResultMessage(resp.toolCalls[i], outcome.content)]

\* the metadata values the tool calls of a turn of the child record: one use
\* count for each call whose handler returned
ChildToolMetadata(resp, outcome) ==
    LET valid == {i \in 1..Len(resp.toolCalls) : ~SchemaParse(resp.toolCalls[i].arguments).threw} IN
    IF outcome.threw \/ valid = {} THEN << >> ELSE <<ToolUseCountMetadata(1)>>

\* one turn of the child's run: step(), the messages of the turn are appended,
\* and a valid finish call seals the group and ends the loop
SubAgentTurn(resp, outcome) ==
    /\ child.pc = "turnTop"
    /\ child.turn < child.maxTurns
    /\ LET tms == ChildToolMessages(resp, outcome)
           found == FinishScan("schema", resp.toolCalls, 1)
           group == child.currentGroup \o <<resp>> \o tms
       IN  child' = [child EXCEPT
                        !.currentMessages = @ \o <<resp>> \o tms,
                        !.currentGroup = group,
                        !.runMetadata =
                            [k \in DOMAIN @ |->
                                IF k = "token_usage" /\ resp.tokenUsage.reported
                                  THEN Append(@[k], TokenUsageMetadata(resp.tokenUsage))
                                ELSE IF k = FINISH_TOOL_NAME
                                  THEN @[k] \o ChildToolMetadata(resp, outcome)
                                ELSE @[k]],
                        !.finishParams = found,
                        !.messageHistory = IF found.defined THEN Append(@, group) ELSE @,
                        !.turn = IF found.defined THEN @ ELSE @ + 1,
                        !.pc = IF found.defined THEN "finalize" ELSE "turnTop"]
    /\ UNCHANGED <<agentVars, stackVars, subVars, initVars, nonBridgeVars>>

\* a generate call of the child rejects: the child's run() rejects and the
\* catch block of the executor takes the error
SubAgentRunThrows ==
    /\ child.pc = "turnTop"
    /\ child.turn < child.maxTurns
    /\ child' = [child EXCEPT
                    !.pc = "settled",
                    !.caught = "client error",
                    !.result = [PendingOutcome EXCEPT !.kind = "rejected", !.error = "client error"]]
    /\ UNCHANGED <<agentVars, stackVars, subVars, initVars, nonBridgeVars>>

\* the child's run() returns its result: the last group is sealed if no finish
\* was found, the metadata is aggregated
SubAgentRunReturns ==
    /\ \/ child.pc = "finalize"
       \/ child.pc = "turnTop" /\ child.turn >= child.maxTurns
    /\ LET history == SealedHistory(child.messageHistory, child.currentGroup, child.finishParams) IN
         child' = [child EXCEPT
                      !.pc = "returned",
                      !.messageHistory = history,
                      !.result = [kind |-> "returned", error |-> "",
                                  finishParams |-> child.finishParams,
                                  messageHistory |-> history,
                                  runMetadata |-> aggregateMetadata(child.runMetadata)]]
    /\ UNCHANGED <<agentVars, stackVars, subVars, initVars, nonBridgeVars>>

\* the executor awaits subAgent[Symbol.asyncDispose]() after the child's run
\* returned: no output file is saved (the child has no output directory), and
\* exitStack.dispose() invokes the provider's dispose hook unless the stack is
\* already disposed.  A hook that throws makes dispose() and asyncDispose reject
\* with its error, which the catch block of the executor takes.
SubAgentAsyncDispose(hookThrows) ==
    /\ child.pc = "returned"
    /\ hookThrows => ~child.stackDisposed
    /\ child' = [child EXCEPT
                    !.pc = "settled",
                    !.stackDisposed = TRUE,
                    !.caught = IF hookThrows THEN "dispose failed" ELSE NoError]
    /\ UNCHANGED <<agentVars, stackVars, subVars, initVars, nonBridgeVars>>

\* the content the executor of the sub-agent tool returns: from its catch block
\* the error, otherwise the finish reason of the result
SubAgentContent(result, caught) ==
    IF caught # NoError
      THEN "<sub_agent_error>" \o caught \o "</sub_agent_error>"
      ELSE "<sub_agent_result>\n"
             \o (IF result.finishParams.defined
                   THEN "  <reason>" \o result.finishParams.reason \o "</reason>\n"
                   ELSE "")
             \o "</sub_agent_result>"

\* the metadata the executor of the sub-agent tool returns: from its catch block
\* an empty SubAgentMetadata, otherwise the history and metadata of the result
SubAgentResultMetadata(result, caught) ==
    IF caught # NoError
      THEN SubAgentMetadata(<< >>, EmptyMetadata)
      ELSE SubAgentMetadata(result.messageHistory, result.runMetadata)

\* the executor of the sub-agent tool returns (it catches every error): runTool
\* emits tool:complete, records the metadata under the name of the tool and
\* returns the ToolMessage with the content
SubAgentExecutorSettles(i) ==
    /\ pc = "tools"
    /\ i \in PendingSubAgentCalls
    /\ child.pc = "settled"
    /\ inFlight' = inFlight \ {i}
    /\ settlements' = Append(settlements,
           [turn |-> turn, index |-> i, name |-> SubAgentToolName, threw |-> FALSE,
            metadata |-> <<SubAgentResultMetadata(child.result, child.caught)>>])
    /\ LET toolCall == assistantMessage.toolCalls[i] IN
         /\ events' = Append(events, Event("tool:complete", toolCall.name, turn))
         /\ toolMessages' = Append(toolMessages,
                ExecutorResultMessage(toolCall, SubAgentContent(child.result, child.caught)))
         /\ runMetadata' = [runMetadata EXCEPT
                ![toolCall.name] = Append(@, SubAgentResultMetadata(child.result, child.caught))]
    /\ child' = [child EXCEPT !.pc = "idle"]
    /\ UNCHANGED <<maxTurns, finishTool, hasSignal, aborted, isInitialized, activeTools,
                   lastFinishParams, pc, turn, currentMessages, currentGroup, messageHistory,
                   finishParams, runOutcome, assistantMessage, idx,
                   genInFlight, genCalls, invocations, scriptCalls, stackVars, subVars,
                   initVars, nonBridgeVars>>

\* a parent with some maxTurns and a child with some maxTurns
BridgeInit ==
    /\ maxTurns \in 1..MaxTurns
    /\ finishTool = "schema"
    /\ hasSignal = FALSE
    /\ AgentIdle
    /\ StackIdle
    /\ SubIdle
    /\ InitIdle
    /\ runCalls = << >>
    /\ throwingSubscribers = {}
    /\ child = ChildIdle(2)
    /\ LateIdle

BridgeNext ==
    \/ RunStart
    \/ BridgeInitialize
    \/ Setup
    \/ TurnStart
    \/ TurnsExhausted
    \/ \E resp \in BridgeResponses(MaxScriptCalls - scriptCalls) : GenerateReturn(resp)
    \/ GenerateThrow
    \/ RunToolInvalid
    \/ RunToolInvoke
    \/ \E i \in inFlight \ PendingSubAgentCalls : \E outcome \in HandlerOutcomes :
          ExecutorSettles(i, outcome)
    \/ SubAgentInitialize
    \/ SubAgentGetToolsReturn
    \/ SubAgentGetToolsThrows
    \/ SubAgentRunSetup
    \/ \E resp \in ChildResponses : \E outcome \in HandlerOutcomes : SubAgentTurn(resp, outcome)
    \/ SubAgentRunThrows
    \/ SubAgentRunReturns
    \/ \E hookThrows \in BOOLEAN : SubAgentAsyncDispose(hookThrows)
    \/ \E i \in PendingSubAgentCalls : SubAgentExecutorSettles(i)
    \/ TurnEndFinish
    \/ TurnEndContinue
    \/ TurnEndSummarize
    \/ \E summary \in Summaries : SummarizeReturn(summary)
    \/ SummarizeThrow
    \/ Finalize

BridgeSpec == BridgeInit /\ [][BridgeNext]_vars

(***************************************************************************)
(* C26: what a sub-agent call leaves in the parent's run                   *)
(***************************************************************************)
RECURSIVE Flatten(_)
Flatten(groups) ==
    IF groups = << >> THEN << >> ELSE groups[1] \o Flatten(SubSeq(groups, 2, Len(groups)))

\* every message the parent's run holds in its lists
ParentMessages ==
    RangeOf(currentMessages) \cup RangeOf(currentGroup) \cup RangeOf(Flatten(messageHistory))
        \cup RangeOf(toolMessages) \cup RangeOf(Flatten(runOutcome.messageHistory))

\* every message of the sub-agent runs made so far
ChildMessages ==
    RangeOf(child.currentMessages) \cup RangeOf(Flatten(child.messageHistory))

SubAgentSettlements == {k \in 1..Len(settlements) : settlements[k].name = SubAgentToolName}

\* the compact summary of the finish reason of a child run: the reason of its
\* finish parameters, none when the run ended without a finish call
FinishReasonSummary(fp) ==
    IF fp.defined
      THEN "<sub_agent_result>\n  <reason>" \o fp.reason \o "</reason>\n</sub_agent_result>"
      ELSE "<sub_agent_result>\n</sub_agent_result>"

FinishReasonSummaries ==
    { FinishReasonSummary(Undefined), FinishReasonSummary([defined |-> TRUE, reason |-> "done"]) }

\* C26: a call of the sub-agent tool leaves in the parent's run exactly one
\* ToolMessage, whose content is the compact summary of the child's finish
\* reason; no message of the child's conversation is in the parent's active list,
\* groups, or returned history; and the accumulator entry of the sub-agent tool
\* has one SubAgentMetadata per call, which for a child whose run returned holds
\* the child's whole conversation and its aggregated metadata, next to a
\* ToolMessage with the finish reason of that run.
C26_SubAgentCallFrame ==
    /\ ParentMessages \cap ChildMessages = {}
    /\ SubAgentToolName \in DOMAIN runMetadata =>
          Len(runMetadata[SubAgentToolName]) = Cardinality(SubAgentSettlements)
    /\ \A k \in SubAgentSettlements :
          (settlements[k].turn = turn /\ pc \in {"tools", "finalize", "summarizing"})
              => /\ settlements[k].index <= Len(toolMessages)
                 /\ LET tm == toolMessages[settlements[k].index] IN
                      /\ tm.role = "tool"
                      /\ tm.name = SubAgentToolName
                      /\ tm.argsWasValid
                      /\ tm.content \in FinishReasonSummaries
    /\ (pc = "tools" /\ child.pc = "idle" /\ child.result.kind = "returned"
           /\ Len(settlements) > 0 /\ settlements[Len(settlements)].name = SubAgentToolName
           /\ settlements[Len(settlements)].turn = turn)
          => LET entry == runMetadata[SubAgentToolName][Len(runMetadata[SubAgentToolName])]
                 tm == toolMessages[settlements[Len(settlements)].index]
             IN  /\ entry.messageHistory = child.messageHistory
                 /\ RangeOf(child.currentMessages) \subseteq RangeOf(Flatten(entry.messageHistory))
                 /\ entry.runMetadata = child.result.runMetadata
                 /\ tm.content = FinishReasonSummary(child.finishParams)

(***************************************************************************)
(* Disposal of a session: Agent[Symbol.asyncDispose]                       *)
(***************************************************************************)
\* the finish parameters a finished run may have left in lastFinishParams: none,
\* parameters without `paths`, with an empty `paths`, with files named
LastFinishParamsValues ==
    { Undefined,
      [defined |-> TRUE, reason |-> "done"],
      [defined |-> TRUE, reason |-> "done", paths |-> << >>],
      [defined |-> TRUE, reason |-> "done", paths |-> <<"out.txt", "plot.png">>] }

\* the `paths` local of asyncDispose: finishParams.paths when it is an array
FinishPaths(fp) == IF "paths" \in DOMAIN fp THEN fp.paths ELSE << >>

\* the conditions under which asyncDispose calls execEnv.saveOutputFiles
SavesOutputFiles(d, fp, env) ==
    /\ d.outputDir # ""
    /\ fp.defined
    /\ env # ""
    /\ Len(FinishPaths(fp)) > 0
    /\ (d.depth = 0 \/ d.parentExecEnv)

\* the call execEnv.saveOutputFiles(paths, outputDir, destEnv) as asyncDispose
\* makes it, with the cleanups that have been invoked before it
SaveCall(d, fp) ==
    [paths |-> FinishPaths(fp), outputDir |-> d.outputDir,
     destEnv |-> IF d.depth = 0 THEN "undefined" ELSE "parentExecEnv",
     cleanupsBefore |-> cleanupLog]

\* asyncDispose is called: the try block runs up to its await, or to its end
AsyncDisposeCall ==
    /\ disposal.pc = "idle"
    /\ disposal' =
          IF SavesOutputFiles(disposal, lastFinishParams, execEnv)
            THEN [disposal EXCEPT !.pc = "saving",
                                  !.saves = Append(@, SaveCall(disposal, lastFinishParams))]
            ELSE [disposal EXCEPT !.pc = "finally"]
    /\ UNCHANGED <<agentVars, stackVars, subVars, initVars, nonDisposeVars>>

\* an asyncDispose whose catch block lets the error of the save through
AfterSaveRethrows(threw) == IF threw THEN "rejected" ELSE "finally"

\* where asyncDispose goes when saveOutputFiles settled: the catch block logs
\* the error, and the finally block runs either way
AfterSave(threw) == "finally"

\* the awaited saveOutputFiles settles
SaveOutputFilesSettles(threw) ==
    /\ disposal.pc = "saving"
    /\ disposal' = [disposal EXCEPT !.pc = AfterSave(threw), !.saveThrew = threw]
    /\ UNCHANGED <<agentVars, stackVars, subVars, initVars, nonDisposeVars>>

\* the finally block calls sessionState.exitStack.dispose()
ExitStackDispose ==
    /\ disposal.pc = "finally"
    /\ DisposeCall

\* the awaited exitStack.dispose() settles, and asyncDispose with it
AsyncDisposeSettles ==
    /\ disposal.pc = "finally"
    /\ dpc = "done"
    /\ disposal' = [disposal EXCEPT !.pc = "done", !.outcome = disposeOutcome]
    /\ UNCHANGED <<agentVars, stackVars, subVars, initVars, nonDisposeVars>>

\* a session after its run: the exit stack holds the cleanups of the tool
\* providers, that of the code execution environment (initialized in the first
\* pass) at the bottom
DisposeInit ==
    /\ maxTurns = 1
    /\ finishTool = "schema"
    /\ hasSignal = FALSE
    /\ aborted = FALSE
    /\ isInitialized = TRUE
    /\ activeTools = InitialActiveTools(finishTool)
    /\ lastFinishParams \in LastFinishParamsValues
    /\ pc = "idle"
    /\ turn = 0
    /\ currentMessages = << >>
    /\ currentGroup = << >>
    /\ messageHistory = << >>
    /\ runMetadata = EmptyMetadata
    /\ finishParams = Undefined
    /\ runOutcome = PendingOutcome
    /\ assistantMessage = Msg("assistant", "")
    /\ idx = 1
    /\ toolMessages = << >>
    /\ inFlight = {}
    /\ genInFlight = "none"
    /\ events = << >>
    /\ genCalls = 0
    /\ invocations = << >>
    /\ settlements = << >>
    /\ scriptCalls = 0
    /\ execEnv \in {"", "A"}
    /\ \E n \in 0..(MaxResources - 1) :
          stack = (IF execEnv = "" THEN << >> ELSE <<execEnv>>) \o SubSeq(<<"B", "C", "D">>, 1, n)
    /\ registered = stack
    /\ disposed = FALSE
    /\ dpc = "idle"
    /\ running = ""
    /\ errors = << >>
    /\ cleanupLog = << >>
    /\ disposeOutcome = "pending"
    /\ disposeThrown = << >>
    /\ cleanupFailed = << >>
    /\ disposeCallLog = << >>
    /\ SubIdle
    /\ tools = <<ToolA>>
    /\ sessionConfig = [inputFiles |-> FALSE, skillsDir |-> FALSE]
    /\ pendingInputFiles = FALSE
    /\ pendingSkillsDir = FALSE
    /\ ipc = "idle"
    /\ toolCursor = 1
    /\ initLog = << >>
    /\ runCalls = << >>
    /\ throwingSubscribers = {}
    /\ child = ChildIdle(0)
    /\ agg = AggIdle
    /\ MoreIdle
    /\ \E o \in {"", "out"} : \E d \in 0..1 : \E pe \in BOOLEAN :
          /\ d = 0 => ~pe
          /\ disposal = [DisposalIdle EXCEPT !.outputDir = o, !.depth = d, !.parentExecEnv = pe]

DisposeNext ==
    \/ AsyncDisposeCall
    \/ \E threw \in BOOLEAN : SaveOutputFilesSettles(threw)
    \/ ExitStackDispose
    \/ DisposePop
    \/ \E threw \in BOOLEAN : CleanupSettles(threw)
    \/ DisposeSettles
    \/ AsyncDisposeSettles

DisposeSpec == DisposeInit /\ [][DisposeNext]_vars

\* a root session with an outputDir, an execution environment, and a finished
\* run that named files
RootSessionWithOutput ==
    /\ disposal.depth = 0
    /\ disposal.outputDir # ""
    /\ execEnv # ""
    /\ lastFinishParams.defined
    /\ "paths" \in DOMAIN lastFinishParams
    /\ lastFinishParams.paths # << >>

\* C27: at the disposal of a root session with an outputDir, an execution
\* environment and non-empty finishParams.paths, saveOutputFiles is called once,
\* with those paths and that outputDir and the local filesystem as destination,
\* before any cleanup of the exit stack has been invoked (so before the
\* execution environment is disposed); nothing is disposed until the save has
\* settled; and whether or not the save failed, asyncDispose goes on to dispose
\* the exit stack: when it has settled every registered cleanup was invoked.
C27_SaveBeforeDisposal ==
    RootSessionWithOutput =>
       /\ disposal.pc # "idle" =>
             /\ Len(disposal.saves) = 1
             /\ disposal.saves[1].paths = lastFinishParams.paths
             /\ disposal.saves[1].outputDir = disposal.outputDir
             /\ disposal.saves[1].destEnv = "undefined"
             /\ disposal.saves[1].cleanupsBefore = << >>
       /\ disposal.pc \in {"idle", "saving"} => (cleanupLog = << >> /\ ~disposed)
       /\ execEnv \in RangeOf(cleanupLog) => disposal.pc \in {"finally", "done"}
       /\ disposal.saveThrew => disposal.pc \in {"finally", "done"}
       /\ disposal.pc = "done" =>
             /\ disposed
             /\ stack = << >>
             /\ RangeOf(cleanupLog) = RangeOf(registered)
             /\ Len(cleanupLog) = Len(registered)

\* the save failed and the execution environment and another provider were
\* disposed all the same
C27_Witness ==
    /\ RootSessionWithOutput
    /\ disposal.pc = "done"
    /\ disposal.saveThrew
    /\ Len(disposal.saves) = 1
    /\ cleanupLog = <<"B", "A">>

(***************************************************************************)
(* run() called with a list of messages                                    *)
(***************************************************************************)
\* the initMessages a caller may pass: a string (one user message), or a
\* ChatMessage[] - empty, one that brings its own system message, one that
\* carries an earlier exchange
InitMessageLists ==
    { <<UserMessage("task")>>,
      << >>,
      <<Msg("system", "caller system prompt"), UserMessage("task")>>,
      <<UserMessage("task"), Msg("assistant", "earlier answer"), UserMessage("follow-up")>> }

MessagesInit ==
    /\ maxTurns \in 1..MaxTurns
    /\ finishTool = "schema"
    /\ hasSignal = FALSE
    /\ AgentIdle
    /\ StackIdle
    /\ ExtIdle

MessagesNext ==
    \/ RunStart
    \/ Initialize
    \/ \E messages \in InitMessageLists : SetupWith(messages)
    \/ TurnStart
    \/ TurnsExhausted
    \/ \E resp \in Responses(MaxScriptCalls - scriptCalls) : GenerateReturn(resp)
    \/ GenerateThrow
    \/ RunToolUnknown
    \/ RunToolInvalid
    \/ RunToolInvoke
    \/ \E i \in inFlight : \E outcome \in HandlerOutcomes : ExecutorSettles(i, outcome)
    \/ TurnEndFinish
    \/ TurnEndContinue
    \/ TurnEndSummarize
    \/ \E summary \in Summaries : SummarizeReturn(summary)
    \/ SummarizeThrow
    \/ Finalize

MessagesSpec == MessagesInit /\ [][MessagesNext]_vars

SystemMessagesIn(messages) == {i \in 1..Len(messages) : messages[i].role = "system"}

\* C28: the message list of every pending primary generate call begins with a
\* system message and holds exactly one system message, whatever initial
\* messages the caller passed and however often the run has summarized.
C28_OneLeadingSystemMessage ==
    genInFlight = "primary" => SystemMessagesIn(currentMessages) = {1}

(***************************************************************************)
(* aggregateMetadata on the ToolUseCountMetadata values of one tool        *)
(***************************************************************************)
\* the lists of values a run may have recorded under one tool name
ToolUseCountLists == SeqsUpTo({ToolUseCountMetadata(n) : n \in 0..MaxCount}, MaxValues)

\* the results of adding up `values` in list order under every bracketing of
\* the add calls: (a.add(b)).add(c), a.add(b.add(c)), ...
RECURSIVE Bracketings(_)
Bracketings(values) ==
    IF Len(values) = 1
      THEN {values[1]}
      ELSE UNION { { MetadataAdd(a, b) :
                       a \in Bracketings(SubSeq(values, 1, k)),
                       b \in Bracketings(SubSeq(values, k + 1, Len(values))) } :
                   k \in 1..(Len(values) - 1) }

\* the results of the bracketings whose outermost add splits the list after k
BracketingsSplitAt(values, k) ==
    { MetadataAdd(a, b) :
        a \in Bracketings(SubSeq(values, 1, k)),
        b \in Bracketings(SubSeq(values, k + 1, Len(values))) }

\* aggregateMetadata({ code_exec: values })
Aggregate ==
    /\ ~agg.done
    /\ agg' = [agg EXCEPT !.done = TRUE,
                          !.result = aggregateMetadata([k \in {"code_exec"} |-> agg.values])]
    /\ UNCHANGED <<agentVars, stackVars, subVars, initVars, nonAggVars>>

\* the values are added up with the outermost add after the k-th value
AddGrouped(k) ==
    /\ k \in 1..(Len(agg.values) - 1)
    /\ k \notin agg.splits
    /\ agg' = [agg EXCEPT !.splits = @ \cup {k},
                          !.groupings = @ \cup BracketingsSplitAt(agg.values, k)]
    /\ UNCHANGED <<agentVars, stackVars, subVars, initVars, nonAggVars>>

AggInit ==
    /\ maxTurns = 0
    /\ finishTool = "none"
    /\ hasSignal = FALSE
    /\ AgentIdle
    /\ StackIdle
    /\ SubIdle
    /\ InitIdle
    /\ runCalls = << >>
    /\ throwingSubscribers = {}
    /\ child = ChildIdle(0)
    /\ disposal = DisposalIdle
    /\ MoreIdle
    /\ \E values \in ToolUseCountLists : agg = [AggIdle EXCEPT !.values = values]

AggNext ==
    \/ Aggregate
    \/ \E k \in 1..MaxValues : AddGrouped(k)

AggSpec == AggInit /\ [][AggNext]_vars

RECURSIVE SumOfCounts(_)
SumOfCounts(values) ==
    IF values = << >> THEN 0 ELSE values[1].numUses + SumOfCounts(SubSeq(values, 2, Len(values)))

\* C29: aggregating the ToolUseCountMetadata values recorded for one tool name
\* yields one ToolUseCountMetadata whose count is the sum of the counts (and no
\* entry for an empty list), and adding the values up under any other
\* bracketing of the add calls yields the same value.
C29_ToolUseCountSum ==
    /\ agg.done =>
          IF agg.values = << >>
            THEN DOMAIN agg.result = {}
            ELSE /\ DOMAIN agg.result = {"code_exec"}
                 /\ agg.result["code_exec"].cls = "ToolUseCountMetadata"
                 /\ agg.result["code_exec"].numUses = SumOfCounts(agg.values)
    /\ \A g \in agg.groupings :
          /\ g.cls = "ToolUseCountMetadata"
          /\ g.numUses = SumOfCounts(agg.values)
          /\ agg.done => g = agg.result["code_exec"]

\* counts 1, 2, 3 aggregated to 6, by aggregateMetadata and by both groupings
C29_Witness ==
    /\ agg.values = <<ToolUseCountMetadata(1), ToolUseCountMetadata(2), ToolUseCountMetadata(3)>>
    /\ agg.done
    /\ agg.result["code_exec"].numUses = 6
    /\ agg.splits = {1, 2}
    /\ agg.groupings = {ToolUseCountMetadata(6)}

(***************************************************************************)
(* C30: the active list after a summarization                              *)
(***************************************************************************)
\* C30: after every summarization of a run - the first and any later one - the
\* active list is the system prompt and the initiating user request followed by
\* exactly one bridge message; no bridge message of an earlier summarization is
\* kept.
C30_TaskContextAndOneBridge ==
    JustSummarized =>
        /\ Len(currentMessages) = 3
        /\ SubSeq(currentMessages, 1, 2) = <<SystemMessage, UserMessage("task")>>
        /\ IsBridge(currentMessages[3])

(***************************************************************************)
(* Runs whose handlers return different metadata                           *)
(*                                                                         *)
(* The agent is built with tools: [toolA] or with tools: [toolA, a tool    *)
(* named "token_usage"].  A handler returns a ToolUseCountMetadata, no     *)
(* metadata, a string, the number 0, or throws.                            *)
(***************************************************************************)
\* a plain tool whose name is the key under which step() records token usage
ToolNamedTokenUsage ==
    [name |-> "token_usage", kind |-> "tool", provides |-> "token_usage", parameters |-> "schema"]

\* the registry after initialize() of an agent whose tools list `ts` holds plain
\* tools: each tool under its name, then the finish tool
MetadataActiveTools(ts, ft) ==
    [n \in {ts[k].name : k \in 1..Len(ts)} \cup {FINISH_TOOL_NAME} |->
        IF n = FINISH_TOOL_NAME
          THEN [name |-> FINISH_TOOL_NAME, parameters |-> ft]
          ELSE [name |-> n, parameters |-> "schema"]]

\* the tool calls the script may emit
MetadataScriptCalls ==
    { [name |-> FINISH_TOOL_NAME, arguments |-> ArgsReasonDone, toolCallId |-> "call_f1"],
      [name |-> "toolA",          arguments |-> ArgsReasonDone, toolCallId |-> "call_a1"],
      [name |-> "toolA",          arguments |-> ArgsMalformed,  toolCallId |-> NoToolCallId],
      [name |-> "token_usage",    arguments |-> ArgsReasonDone, toolCallId |-> "call_t1"],
      [name |-> "ghost",          arguments |-> ArgsEmpty,      toolCallId |-> "call_g1"] }

\* assistant messages the script may answer with when `budget` tool calls remain
MetadataResponses(budget) ==
    { [role |-> "assistant", content |-> "text", toolCalls |-> r[1], tokenUsage |-> r[2],
       toolCallId |-> "", name |-> "", argsWasValid |-> TRUE] :
        r \in UNION { {<<cs, u>> : u \in UsagesFor(cs)} :
                          cs \in SeqsUpTo(MetadataScriptCalls, budget) } }

\* initialize() completes: the tools of the list and the finish tool are
\* registered
MetadataInitialize ==
    /\ pc = "initialize"
    /\ activeTools' = MetadataActiveTools(tools, finishTool)
    /\ isInitialized' = TRUE
    /\ pc' = "initialized"
    /\ UNCHANGED <<maxTurns, finishTool, hasSignal, aborted,
                   lastFinishParams, turn, currentMessages, currentGroup, messageHistory,
                   runMetadata, finishParams, runOutcome, assistantMessage, idx, toolMessages,
                   inFlight, genInFlight, events, genCalls, invocations, scriptCalls, settlements,
                   stackVars, extVars>>

MetadataInit ==
    /\ maxTurns \in 1..MaxTurns
    /\ finishTool = "schema"
    /\ hasSignal = FALSE
    /\ AgentIdle
    /\ StackIdle
    /\ SubIdle
    /\ tools \in {<<ToolA>>, <<ToolA, ToolNamedTokenUsage>>}
    /\ sessionConfig = [inputFiles |-> FALSE, skillsDir |-> FALSE]
    /\ pendingInputFiles = FALSE
    /\ pendingSkillsDir = FALSE
    /\ ipc = "idle"
    /\ toolCursor = 1
    /\ execEnv = ""
    /\ initLog = << >>
    /\ SessIdle

MetadataNext ==
    \/ RunStart
    \/ MetadataInitialize
    \/ Setup
    \/ TurnStart
    \/ TurnsExhausted
    \/ \E resp \in MetadataResponses(MaxScriptCalls - scriptCalls) : GenerateReturn(resp)
    \/ GenerateThrow
    \/ RunToolUnknown
    \/ RunToolInvalid
    \/ RunToolInvoke
    \/ \E i \in inFlight : \E outcome \in HandlerOutcomesWithMetadata : ExecutorSettles(i, outcome)
    \/ TurnEndFinish
    \/ TurnEndContinue
    \/ TurnEndSummarize
    \/ \E summary \in Summaries : SummarizeReturn(summary)
    \/ SummarizeThrow
    \/ Finalize

MetadataSpec == MetadataInit /\ [][MetadataNext]_vars

\* the metadata values returned by the first k settled invocations that were of
\* the handler of t and returned a result, in the order they settled
RECURSIVE ReturnedMetadata(_, _)
ReturnedMetadata(t, k) ==
    IF k = 0 THEN << >>
    ELSE ReturnedMetadata(t, k - 1)
           \o (IF settlements[k].name = t /\ ~settlements[k].threw
                 THEN settlements[k].metadata ELSE << >>)

RECURSIVE SumOfUses(_)
SumOfUses(values) ==
    IF values = << >> THEN 0 ELSE values[1].numUses + SumOfUses(SubSeq(values, 2, Len(values)))

\* the names a tool call of the run may carry without naming a registered tool
UnknownNames == ({c.name : c \in MetadataScriptCalls} \ DOMAIN activeTools) \ {"token_usage"}

\* C31: for every name t under which a tool is registered, the accumulator of t
\* holds exactly the metadata values returned by the invocations of t's handler
\* that returned a result, in call order, and the entry of t in the RunResult is
\* the aggregate of exactly these values (the sum of the counts when they are
\* use counts; no entry when there is none).  A name that names no tool has no
\* entry: calls that named an unknown tool, failed validation, or whose handler
\* threw add nothing.
C31_ToolMetadataIsFoldOfSuccesses ==
    /\ \A t \in DOMAIN runMetadata \cap DOMAIN activeTools :
          runMetadata[t] = ReturnedMetadata(t, Len(settlements))
    /\ runOutcome.kind = "returned" =>
          /\ \A t \in UnknownNames : t \notin DOMAIN runOutcome.runMetadata
          /\ \A t \in DOMAIN activeTools :
                LET returned == ReturnedMetadata(t, Len(settlements)) IN
                IF returned = << >>
                  THEN t \notin DOMAIN runOutcome.runMetadata
                  ELSE /\ t \in DOMAIN runOutcome.runMetadata
                       /\ runOutcome.runMetadata[t] = AggregatedValue(returned)
                       /\ (\A k \in 1..Len(returned) : returned[k].cls = "ToolUseCountMetadata")
                             => runOutcome.runMetadata[t] = ToolUseCountMetadata(SumOfUses(returned))

(***************************************************************************)
(* C32: primary generate calls and the token usage record                  *)
(***************************************************************************)
\* the responses of the primary generate calls of a run that returned: the
\* assistant messages of its message history, in order
PrimaryResponses ==
    SelectSeq(Flatten(runOutcome.messageHistory), LAMBDA m : m.role = "assistant")

RECURSIVE SumOfUsage(_, _)
SumOfUsage(responses, field) ==
    IF responses = << >> THEN 0
    ELSE (IF responses[1].tokenUsage.reported THEN responses[1].tokenUsage[field] ELSE 0)
           + SumOfUsage(SubSeq(responses, 2, Len(responses)), field)

TurnStarts == {k \in 1..Len(events) : events[k].type = "turn:start"}

\* C32: every turn that starts issues exactly one primary generate call, the
\* accumulator gets one token usage record per response of such a call that
\* reports usage (none for the summarization call), and the token_usage entry of
\* the RunResult is the component-wise sum of the usage those responses
\* reported (there is no entry when none reported usage).
C32_TokenUsageIsSumOfPrimaryUsage ==
    /\ genCalls = Cardinality(TurnStarts)
    /\ genCalls <= maxTurns
    /\ pc = "turnTop" => genCalls = turn
    /\ pc \in {"generate", "tools"} => genCalls = turn + 1
    /\ runOutcome.kind = "returned" =>
          /\ Len(PrimaryResponses) = genCalls
          /\ LET reporting == SelectSeq(PrimaryResponses, LAMBDA m : m.tokenUsage.reported) IN
               /\ Len(runMetadata["token_usage"]) = Len(reporting)
               /\ IF reporting = << >>
                    THEN "token_usage" \notin DOMAIN runOutcome.runMetadata
                    ELSE /\ "token_usage" \in DOMAIN runOutcome.runMetadata
                         /\ runOutcome.runMetadata["token_usage"].cls = "TokenUsageMetadata"
                         /\ runOutcome.runMetadata["token_usage"].input
                              = SumOfUsage(PrimaryResponses, "input")
                         /\ runOutcome.runMetadata["token_usage"].output
                              = SumOfUsage(PrimaryResponses, "output")

\* two turns with a summarization between them; both responses reported usage
C32_Witness ==
    /\ runOutcome.kind = "returned"
    /\ genCalls = 2
    /\ \E k \in 1..Len(events) : events[k].type = "summarization:complete"
    /\ runOutcome.runMetadata["token_usage"].input = 999
    /\ runOutcome.runMetadata["token_usage"].output = 400

(***************************************************************************)
(* Termination of run()                                                    *)
(***************************************************************************)
\* the steps of run() itself, once the caller has called it
RunProgress ==
    \/ Initialize
    \/ Setup
    \/ TurnStart
    \/ TurnsExhausted
    \/ \E resp \in Responses(MaxScriptCalls - scriptCalls) : GenerateReturn(resp)
    \/ GenerateThrow
    \/ RunToolUnknown
    \/ RunToolInvalid
    \/ RunToolInvoke
    \/ \E i \in inFlight : \E outcome \in HandlerOutcomes : ExecutorSettles(i, outcome)
    \/ TurnEndFinish
    \/ TurnEndContinue
    \/ TurnEndSummarize
    \/ \E summary \in Summaries : SummarizeReturn(summary)
    \/ SummarizeThrow
    \/ Finalize

LiveInit ==
    /\ maxTurns \in 0..MaxTurns
    /\ finishTool \in {"none", "schema"}
    /\ hasSignal = FALSE
    /\ AgentIdle
    /\ StackIdle
    /\ ExtIdle

\* a run in which every pending generate call and handler invocation settles
\* and every continuation is eventually run
LiveNext == RunStart \/ RunProgress

LiveSpec == LiveInit /\ [][LiveNext]_vars /\ WF_vars(RunProgress)

SummarizationCalls == {k \in 1..Len(events) : events[k].type = "summarization:start"}

RunSettled == runOutcome.kind \in {"returned", "rejected"}

\* C33: when every generate call and every handler invocation settles, a run()
\* that was called eventually returns or rejects, and it never makes more than
\* maxTurns primary generate calls nor more than maxTurns summarization calls.
C33_RunTerminatesWithinMaxTurns ==
    /\ [](genCalls <= maxTurns /\ Cardinality(SummarizationCalls) <= maxTurns)
    /\ (pc # "idle") ~> RunSettled

\* a run that used all of its turns, each followed by a summarization, returned
C33_Witness ==
    /\ runOutcome.kind = "returned"
    /\ maxTurns = MaxTurns
    /\ genCalls = maxTurns
    /\ Cardinality(SummarizationCalls) = maxTurns

(***************************************************************************)
(* The summarization generate call and its response                        *)
(***************************************************************************)
\* the tools offered to the summarization call: `new Map()`
SummarizerToolsActive == DOMAIN activeTools

SummarizerTools == {}

\* the messages after the preserved task context
ToSummarize(messages) ==
    SubSeq(messages, Len(TaskContext(messages)) + 1, Len(messages))

\* the message list of the summarization call
SummaryMessages(messages) ==
    <<Msg("system", "summarizer prompt")>> \o ToSummarize(messages)
        \o <<UserMessage("Please provide a concise summary.")>>

\* what the model may answer the summarization call with: text; text with a
\* tool call and a usage at the cutoff; text with a finish call and such a usage
SummaryResponses ==
    { [role |-> "assistant", content |-> "summary", toolCalls |-> cs, tokenUsage |-> u,
       toolCallId |-> "", name |-> "", argsWasValid |-> TRUE] :
        <<cs, u>> \in
          { <<NoCalls, NoUsage>>,
            << <<[name |-> "toolA", arguments |-> ArgsReasonDone, toolCallId |-> "call_sum"]>>,
               [reported |-> TRUE, input |-> 500, output |-> 200] >>,
            << <<[name |-> FINISH_TOOL_NAME, arguments |-> ArgsReasonDone,
                  toolCallId |-> "call_sum"]>>,
               [reported |-> TRUE, input |-> 500, output |-> 200] >> } }

\* the summarization call resolves with `resp`: only its content is read
SummarizeReturnResponse(resp) ==
    /\ SummarizeResumes(resp.content)
    /\ summaryCalls' = Append(summaryCalls,
           [turn |-> turn, tools |-> SummarizerTools,
            messages |-> SummaryMessages(currentMessages), response |-> resp])
    /\ UNCHANGED <<subVars, initVars, earlierVars, enterVars>>

SummarizerInit ==
    /\ maxTurns \in 1..MaxTurns
    /\ finishTool = "schema"
    /\ hasSignal = FALSE
    /\ AgentIdle
    /\ StackIdle
    /\ ExtIdle

SummarizerNext ==
    \/ RunStart
    \/ Initialize
    \/ Setup
    \/ TurnStart
    \/ TurnsExhausted
    \/ \E resp \in Responses(MaxScriptCalls - scriptCalls) : GenerateReturn(resp)
    \/ GenerateThrow
    \/ RunToolUnknown
    \/ RunToolInvalid
    \/ RunToolInvoke
    \/ \E i \in inFlight : \E outcome \in HandlerOutcomes : ExecutorSettles(i, outcome)
    \/ TurnEndFinish
    \/ TurnEndContinue
    \/ TurnEndSummarize
    \/ \E resp \in SummaryResponses : SummarizeReturnResponse(resp)
    \/ SummarizeThrow
    \/ Finalize

SummarizerSpec == SummarizerInit /\ [][SummarizerNext]_vars

SummarizationStarts(t) ==
    {k \in 1..Len(events) : events[k].type = "summarization:start" /\ events[k].turn = t}

\* C34: a summarization makes exactly one secondary generate call, with no
\* tools offered and with the summarized tail between the summarizer prompt and
\* the closing request; whatever tool calls and token usage its response
\* carries, no tool is dispatched for it, no record is added to the token
\* usage, the run does not finish on it, and the loop goes on to the next turn:
\* a turn has at most one summarization.
C34_SummarizationDoesNotRecurse ==
    /\ \A t \in 0..maxTurns : Cardinality(SummarizationStarts(t)) <= 1
    /\ Len(summaryCalls) + (IF genInFlight = "summary" THEN 1 ELSE 0)
          + (IF runOutcome.kind = "rejected" /\ Len(events) > 1
                  /\ events[Len(events) - 1].type = "summarization:start" THEN 1 ELSE 0)
          = Cardinality({k \in 1..Len(events) : events[k].type = "summarization:start"})
    /\ \A k \in 1..Len(summaryCalls) :
          /\ summaryCalls[k].tools = {}
          /\ summaryCalls[k].messages[1].role = "system"
          /\ Len(summaryCalls[k].messages) >= 3
          /\ k > 1 => summaryCalls[k].turn > summaryCalls[k - 1].turn
    /\ \A m \in ParentMessages : m.toolCallId # "call_sum"
    /\ Len(invocations) <= scriptCalls
    /\ "token_usage" \in DOMAIN runMetadata => Len(runMetadata["token_usage"]) <= genCalls
    /\ JustSummarized =>
          /\ inFlight = {}
          /\ genInFlight = "none"
          /\ ~finishParams.defined
          /\ turn = summaryCalls[Len(summaryCalls)].turn + 1
          /\ currentMessages[Len(currentMessages)]
               = BridgeMessage(summaryCalls[Len(summaryCalls)].response.content)

\* two summarizations in one run, both answered with a tool call and a usage at
\* the cutoff; the run went on and returned
C34_Witness ==
    /\ runOutcome.kind = "returned"
    /\ Len(summaryCalls) = 2
    /\ \A k \in 1..2 : summaryCalls[k].response.toolCalls # NoCalls
    /\ summaryCalls[1].response.toolCalls[1].name = FINISH_TOOL_NAME
    /\ ~runOutcome.finishParams.defined

(***************************************************************************)
(* C35: the metadata of several runs of one sub-agent                      *)
(***************************************************************************)
RECURSIVE ConcatHistories(_)
ConcatHistories(runs) ==
    IF runs = << >> THEN << >>
    ELSE runs[1].messageHistory \o ConcatHistories(SubSeq(runs, 2, Len(runs)))

\* the sum of a component of the entries under `key` of the run metadata of `runs`
RECURSIVE SumOverRuns(_, _, _)
SumOverRuns(runs, key, field) ==
    IF runs = << >> THEN 0
    ELSE (IF key \in DOMAIN runs[1].runMetadata THEN runs[1].runMetadata[key][field] ELSE 0)
           + SumOverRuns(SubSeq(runs, 2, Len(runs)), key, field)

\* C35: when the sub-agent tool was invoked several times in a parent run that
\* returned, the parent's runMetadata entry of the sub-agent holds the message
\* histories of all child runs in call order, and under every key of a child's
\* run metadata the sums of the token usage and of the tool-use counts over
\* all child runs.
C35_SubAgentMetadataCombined ==
    (runOutcome.kind = "returned" /\ SubAgentToolName \in DOMAIN runOutcome.runMetadata) =>
        LET runs == ReturnedMetadata(SubAgentToolName, Len(settlements))
            entry == runOutcome.runMetadata[SubAgentToolName]
        IN  /\ entry.messageHistory = ConcatHistories(runs)
            /\ \A key \in UNION {DOMAIN runs[k].runMetadata : k \in 1..Len(runs)} :
                  /\ key \in DOMAIN entry.runMetadata
                  /\ \A field \in {"input", "output", "numUses"} :
                        entry.runMetadata[key][field] = SumOverRuns(runs, key, field)

(***************************************************************************)
(* C36: the exit paths of the sub-agent tool's executor                     *)
(*                                                                         *)
(* The executor of toTool() wraps all its steps in one try/catch; the      *)
(* catch block builds the <sub_agent_error> result and returns.  The file   *)
(* steps are skipped when no parent environment is found, as is always the *)
(* case here (SessionExecEnv), so the step that can reject is the run.     *)
(***************************************************************************)
\* run() rejects (the model client failed in a turn): run:error is emitted and the
\* error is rethrown, into the catch block of the awaiting executor if there is one
RunThrows ==
    /\ frames # << >>
    /\ Top.kind = "run"
    /\ Top.pc = "loop"
    /\ subLog' = Append(subLog, Log("run:error", Top.level, Top.depth, ""))
    /\ frames' = IF Len(frames) = 1
                   THEN << >>
                   ELSE [SubSeq(frames, 1, Len(frames) - 1) EXCEPT ![Len(frames) - 1] =
                            [@ EXCEPT !.pc = "catch"]]
    /\ UNCHANGED <<customSystemPrompt, codeExec, agents, providers, sessionStore,
                   parentDepthStore, toolCallsMade, agentVars, stackVars, initVars, sessVars>>

\* executor, catch block: return the <sub_agent_error> result to the parent run
ExecutorCatch ==
    /\ frames # << >>
    /\ Top.kind = "executor"
    /\ Top.pc = "catch"
    /\ subLog' = Append(subLog, Log("sub_agent_error", Top.level, Top.depth, ""))
    /\ frames' = SubSeq(frames, 1, Len(frames) - 1)
    /\ UNCHANGED <<customSystemPrompt, codeExec, agents, providers, sessionStore,
                   parentDepthStore, toolCallsMade, agentVars, stackVars, initVars, sessVars>>

ExitPathNext ==
    \/ SubAgentNext
    \/ RunThrows
    \/ ExecutorCatch

ExitPathSpec == SubAgentInit /\ [][ExitPathNext]_vars

\* an executor of the sub-agent tool of level l is in progress
ExecutorInProgress(l) ==
    \E i \in 1..Len(frames) : frames[i].kind = "executor" /\ frames[i].level = l

\* C36: when no executor of a sub-agent's tool is in progress, a child session
\* that an executor initialized has had its disposal invoked, whichever way the
\* executor returned.
C36_ChildDisposedOnEveryExit ==
    \A l \in SubLevels :
        (agents[l].toolsRegistered /\ ~ExecutorInProgress(l)) => agents[l].stackDisposed

(***************************************************************************)
(* C37: run() attempts one after the other, then the session's disposal    *)
(*                                                                         *)
(* The caller awaits each call before making the next one, and disposes    *)
(* the agent after the last; a call may fail in its initialization when a  *)
(* provider's getTools() rejects.                                          *)
(***************************************************************************)
AllCallsSettled == \A c \in 1..Len(runCalls) : runCalls[c].pc \in {"returned", "rejected"}

\* the caller makes the next call after the earlier ones settled
CallRunInTurn(kind) ==
    /\ AllCallsSettled
    /\ ~disposed
    /\ CallRun(kind)

\* Agent[Symbol.asyncDispose]() after the calls: no output directory, so nothing
\* is saved; this.sessionState.exitStack.dispose() calls the dispose hooks of the
\* current session state's stack, last pushed first
SessionAsyncDispose ==
    /\ Len(runCalls) > 0
    /\ AllCallsSettled
    /\ ~disposed
    /\ disposed' = TRUE
    /\ cleanupLog' = cleanupLog \o Reverse(stack)
    /\ stack' = << >>
    /\ disposeOutcome' = "resolved"
    /\ UNCHANGED <<dpc, running, errors, registered, disposeThrown, cleanupFailed,
                   disposeCallLog, agentVars, extVars>>

ReinitNext ==
    \/ \E kind \in RunCallKinds : CallRunInTurn(kind)
    \/ \E c \in 1..Len(runCalls) : GetToolsReturn(c)
    \/ \E c \in 1..Len(runCalls) : GetToolsThrows(c)
    \/ \E c \in 1..Len(runCalls) : InitializeResume(c)
    \/ \E c \in 1..Len(runCalls) : InitializeReturn(c)
    \/ \E c \in 1..Len(runCalls) : RunCallReturns(c)
    \/ SessionAsyncDispose

ReinitSpec == SessionInit /\ [][ReinitNext]_vars

\* the getTools() calls of the provider that rejected
GetToolsRejections(name) ==
    Cardinality({c \in 1..Len(runCalls) :
                    /\ runCalls[c].pc = "rejected"
                    /\ InitializeOrder(tools)[runCalls[c].step].name = name})

DisposeHookCalls(name) ==
    Cardinality({i \in 1..Len(cleanupLog) : cleanupLog[i] = name})

\* C37: once the session is disposed after some run() attempts, each provider's
\* dispose hook has been invoked as many times as its getTools() succeeded.
C37_EveryGetToolsHasOneDispose ==
    disposed =>
        \A k \in 1..Len(tools) :
            IsToolProvider(tools[k]) =>
                DisposeHookCalls(tools[k].name)
                    = GetToolsCalls(tools[k].name) - GetToolsRejections(tools[k].name)

(***************************************************************************)
(* C38: an abort while a turn is in progress                               *)
(***************************************************************************)
\* C38: once the signal is aborted, every generate call and every tool call
\* still made belongs to the turn in progress (the turn counter is unchanged
\* by the step and the run is not at the top of a turn); the turn counter
\* then moves by one to the top of the next turn, where the run rejects with
\* the abort reason if the loop has a next turn, and makes no further call;
\* a run that returns although the signal is aborted has finished in the turn
\* in progress or has used up its turns.
C38_AbortObservedByNextTurnTop ==
    [][ (hasSignal /\ aborted) =>
          /\ (genCalls' # genCalls \/ invocations' # invocations \/ genInFlight' \notin {"none", genInFlight})
                => (turn' = turn /\ pc # "turnTop")
          /\ (turn' # turn) => (turn' = turn + 1 /\ pc' = "turnTop")
          /\ (pc = "turnTop" /\ turn < maxTurns)
                => (pc' = "rejected" /\ runOutcome'.error = "abort")
          /\ (pc = "turnTop" /\ turn >= maxTurns) => pc' = "finalize"
          /\ (pc' = "returned" /\ pc # "returned")
                => (finishParams.defined \/ turn >= maxTurns) ]_vars

\* a run aborted during its first turn, whose two tool calls were still made, and
\* which rejected with the abort reason at the top of its second turn
C38_Witness ==
    /\ hasSignal /\ aborted
    /\ pc = "rejected" /\ runOutcome.error = "abort"
    /\ turn = 1
    /\ genCalls = 1
    /\ Len(invocations) = 2

(***************************************************************************)
(* C39: the terminal event of a run                                        *)
(*                                                                         *)
(* The caller has subscribed listeners that throw to some of the events    *)
(* run:start and run:complete.  run:start is emitted before the try block  *)
(* of run(), run:complete as the last statement but one inside it.         *)
(***************************************************************************)
RunEventTypes == {"run:start", "run:complete"}

\* run() is called and a run:start listener throws: the exception leaves run()
\* before its try block, so the catch block does not run
RunStartSubscriberThrows ==
    /\ pc = "idle"
    /\ ~EmitReturns("run:start")
    /\ events' = Append(events, Event("run:start", "", 0))
    /\ runOutcome' = [PendingOutcome EXCEPT !.kind = "rejected", !.error = SubscriberError]
    /\ pc' = "rejected"
    /\ UNCHANGED <<maxTurns, finishTool, hasSignal, aborted, isInitialized, activeTools,
                   lastFinishParams, turn, currentMessages, currentGroup, messageHistory,
                   runMetadata, finishParams, assistantMessage, idx, toolMessages,
                   inFlight, genInFlight, genCalls, invocations, scriptCalls, settlements,
                   stackVars, extVars>>

\* after the loop, and a run:complete listener throws: the history is sealed and
\* lastFinishParams assigned, then the exception of the emit statement is handled
\* by the catch block of run(), which emits run:error and rethrows
FinalizeSubscriberThrows ==
    /\ pc = "finalize"
    /\ ~EmitReturns("run:complete")
    /\ messageHistory' = SealedHistory(messageHistory, currentGroup, finishParams)
    /\ lastFinishParams' = finishParams
    /\ RejectAfter(<<Event("run:complete", "", turn)>>, SubscriberError)
    /\ UNCHANGED <<maxTurns, finishTool, hasSignal, aborted, isInitialized, activeTools,
                   turn, currentMessages, currentGroup, runMetadata, finishParams,
                   assistantMessage, idx, toolMessages, inFlight, genInFlight, genCalls,
                   invocations, scriptCalls, settlements, stackVars, extVars>>

\* an agent with a finish tool and toolA, run without a signal; the caller has
\* subscribed throwing listeners to some set of the run events
TerminalInit ==
    /\ maxTurns \in 1..MaxTurns
    /\ finishTool = "schema"
    /\ hasSignal = FALSE
    /\ AgentIdle
    /\ StackIdle
    /\ SubIdle
    /\ InitIdle
    /\ runCalls = << >>
    /\ throwingSubscribers \in SUBSET RunEventTypes
    /\ child = ChildIdle(0)
    /\ LateIdle

TerminalNext ==
    \/ EmitReturns("run:start") /\ RunStart
    \/ RunStartSubscriberThrows
    \/ Initialize
    \/ Setup
    \/ TurnStart
    \/ TurnsExhausted
    \/ \E resp \in Responses(MaxScriptCalls - scriptCalls) : GenerateReturn(resp)
    \/ GenerateThrow
    \/ RunToolUnknown
    \/ RunToolInvalid
    \/ RunToolInvoke
    \/ \E i \in inFlight : \E outcome \in HandlerOutcomes : ExecutorSettles(i, outcome)
    \/ TurnEndFinish
    \/ TurnEndContinue
    \/ TurnEndSummarize
    \/ \E summary \in Summaries : SummarizeReturn(summary)
    \/ SummarizeThrow
    \/ EmitReturns("run:complete") /\ Finalize
    \/ FinalizeSubscriberThrows

TerminalSpec == TerminalInit /\ [][TerminalNext]_vars

EventsOfType(type) == {i \in 1..Len(events) : events[i].type = type}

\* C39: a run has at most one terminal event, and none while it is in
\* progress; a run that returned has one run:complete and no run:error, a run
\* that rejected one run:error and no run:complete; and the terminal event is
\* the last event of the run.
C39_OneTerminalEvent ==
    LET completes == EventsOfType("run:complete")
        runErrors == EventsOfType("run:error")
    IN  /\ Cardinality(completes) + Cardinality(runErrors) <= 1
        /\ pc = "returned" <=> Cardinality(completes) = 1
        /\ pc = "rejected" <=> Cardinality(runErrors) = 1
        /\ \A i \in completes \cup runErrors : i = Len(events)

(***************************************************************************)
(* C40: runStream() consumed to its end, and run()                         *)
(*                                                                         *)
(* The loop of runStream() is the loop of run() with `yield` in the place  *)
(* of this.emit; it calls the same initialize(), step() and                *)
(* summarizeMessages().  The caller either awaits run() or consumes the    *)
(* generator of runStream() up to its last event.                          *)
(***************************************************************************)
\* runStream() after the loop: seal the last group if no finish was found,
\* aggregate the metadata and yield the 'complete' event with the result; the
\* generator then returns
StreamFinalize ==
    /\ pc = "finalize"
    /\ Streaming
    /\ LET history == SealedHistory(messageHistory, currentGroup, finishParams) IN
         /\ messageHistory' = history
         /\ runOutcome' = [kind |-> "returned", error |-> "", finishParams |-> finishParams,
                           messageHistory |-> history,
                           runMetadata |-> aggregateMetadata(runMetadata)]
    /\ pc' = "returned"
    /\ UNCHANGED <<maxTurns, finishTool, hasSignal, aborted, isInitialized, activeTools,
                   lastFinishParams, turn, currentMessages, currentGroup, runMetadata,
                   finishParams, assistantMessage, idx, toolMessages, inFlight, genInFlight,
                   events, genCalls, invocations, scriptCalls, settlements, stackVars, extVars>>

\* an agent with a finish tool and toolA; the caller calls run() or runStream(),
\* without a signal
StreamInit ==
    /\ maxTurns \in 1..MaxTurns
    /\ finishTool = "schema"
    /\ hasSignal = FALSE
    /\ AgentIdle
    /\ StackIdle
    /\ SubIdle
    /\ InitIdle
    /\ \E kind \in RunCallKinds : runCalls = <<RunCall(kind, "loop", 0)>>
    /\ throwingSubscribers = {}
    /\ child = ChildIdle(0)
    /\ LateIdle

StreamNext ==
    \/ RunStart
    \/ Initialize
    \/ Setup
    \/ TurnStart
    \/ TurnsExhausted
    \/ \E resp \in Responses(MaxScriptCalls - scriptCalls) : GenerateReturn(resp)
    \/ GenerateThrow
    \/ RunToolUnknown
    \/ RunToolInvalid
    \/ RunToolInvoke
    \/ \E i \in inFlight : \E outcome \in HandlerOutcomes : ExecutorSettles(i, outcome)
    \/ TurnEndFinish
    \/ TurnEndContinue
    \/ TurnEndSummarize
    \/ \E summary \in Summaries : SummarizeReturn(summary)
    \/ SummarizeThrow
    \/ ~Streaming /\ Finalize
    \/ StreamFinalize

StreamSpec == StreamInit /\ [][StreamNext]_vars

\* C40: whichever of run() and runStream() the caller used, a call that has
\* delivered its result leaves as the agent's recorded last finish parameters the
\* finish parameters of that result (what run() records, and what the disposal
\* reads).
C40_StreamLeavesLastFinishParams ==
    pc = "returned" => lastFinishParams = runOutcome.finishParams

====
